---- MODULE Spec2Model ----
(***************************************************************************)
(* Traceroute-to-AS-path translation engine of traceroute-dependency:      *)
(* traceroute_to_bgp.process_hop / process_message and the run loop of     *)
(* main, with the module-level state (stats, probe_ip_map) and the run's   *)
(* dedup set.                                                              *)
(*                                                                         *)
(* Python values are modelled as follows.                                  *)
(*   dict with optional keys : a record with a field "keys" (the keys the  *)
(*                             dict has) next to the values                *)
(*   dict() / output record  : the sequence <<>> / <<rec>>                 *)
(*   None-able argument      : a has_... flag next to the value            *)
(*   'as|N', 'ix|N', ...     : a token record [kind, ixp, val]             *)
(*   path position           : [set |-> BOOLEAN, toks |-> Seq(token)]      *)
(***************************************************************************)
EXTENDS Integers, Sequences, FiniteSets, TLC

(***************************************************************************)
(* Bounds of the model.                                                    *)
(***************************************************************************)
\* number of records the reader yields in one run
MaxMsgs == 3
\* number of replies of a hop given to process_hop on its own
MaxReplies == 3

(***************************************************************************)
(* The lookup capability (iplookup.IPLookup): one fixed snapshot.          *)
(***************************************************************************)
PeerA == "10.0.0.1"
PeerB == "10.0.0.2"
PeerDst == "10.0.0.9"
Dst == "20.0.0.1"
Transit1 == "30.0.0.1"
Transit2 == "30.0.0.2"
IxpAddr == "40.0.0.1"
Unrouted == "50.0.0.1"
NoPrefixAddr == "60.0.0.1"
Star == "*"

Addrs == {PeerA, PeerB, PeerDst, Dst, Transit1, Transit2, IxpAddr, Unrouted, NoPrefixAddr}

\* ip2asn(address) -> ASN | "0"
ip2asn(a) ==
    CASE a \in {PeerA, PeerB, PeerDst} -> "64500"
      [] a = Dst -> "64501"
      [] a = Transit1 -> "64502"
      [] a = Transit2 -> "64503"
      [] a = IxpAddr -> "64504"
      [] a = NoPrefixAddr -> "64505"
      [] OTHER -> "0"

\* ip2prefix(address) -> prefix | empty
ip2prefix(a) ==
    CASE a \in {PeerA, PeerB, PeerDst} -> "10.0.0.0/24"
      [] a = Dst -> "20.0.0.0/24"
      [] a \in {Transit1, Transit2} -> "30.0.0.0/24"
      [] a = IxpAddr -> "40.0.0.0/24"
      [] OTHER -> ""

\* ip2ixpid(address) -> integer, 0 = not an IXP
ip2ixpid(a) == IF a = IxpAddr THEN 7 ELSE 0

\* Python's order on the address strings ('*' sorts before every digit)
AddrRank(a) ==
    CASE a = Star -> 0
      [] a = PeerA -> 1
      [] a = PeerB -> 2
      [] a = PeerDst -> 3
      [] a = Dst -> 4
      [] a = Transit1 -> 5
      [] a = Transit2 -> 6
      [] a = IxpAddr -> 7
      [] a = Unrouted -> 8
      [] OTHER -> 9

\* sorted(s) for a set of address strings
RECURSIVE SortedAddrs(_)
SortedAddrs(s) ==
    IF s = {} THEN <<>>
    ELSE LET m == CHOOSE x \in s : \A y \in s : AddrRank(x) <= AddrRank(y)
         IN <<m>> \o SortedAddrs(s \ {m})

(***************************************************************************)
(* Path tokens: f'as|{asn}', f'ix|{ixp}', f'ix|{ixp};as|{asn}',            *)
(* f'ip|{address}'.  A path position holds one token, or the tuple of      *)
(* tokens of an AS set.                                                    *)
(***************************************************************************)
TokAs(asn) == "as|" \o asn
TokIx(ixp) == "ix|" \o ToString(ixp)
TokIxAs(ixp, asn) == "ix|" \o ToString(ixp) \o ";as|" \o asn
TokIp(a) == "ip|" \o a
TokTimeout == "as|0"

Single(tok) == [set |-> FALSE, toks |-> <<tok>>]
SetOf(toks) == [set |-> TRUE, toks |-> toks]

(***************************************************************************)
(* Inline error codes of a reply: strings such as 'N', 'H', or an integer  *)
(* for an unrecognised code.  str() turns both into a string.              *)
(***************************************************************************)
ErrH == [int |-> FALSE, s |-> "H", n |-> 0]
ErrN == [int |-> FALSE, s |-> "N", n |-> 0]
Err5 == [int |-> TRUE, s |-> "", n |-> 5]
NoErr == [int |-> FALSE, s |-> "", n |-> 0]

Str(e) == IF e.int THEN ToString(e.n) ELSE e.s

\* Python's order on the error strings
ErrRank(s) ==
    CASE s = "5" -> 1
      [] s = "H" -> 2
      [] s = "N" -> 3
      [] OTHER -> 4

\* ' '.join(map(str, sorted(errors_in_hop)))
RECURSIVE JoinSorted(_)
JoinSorted(errs) ==
    IF errs = {} THEN ""
    ELSE LET m == CHOOSE x \in errs : \A y \in errs : ErrRank(x) <= ErrRank(y)
             rest == errs \ {m}
         IN IF rest = {} THEN m ELSE m \o " " \o JoinSorted(rest)

(***************************************************************************)
(* ASPath, the per-message path accumulator.  calls is the history of the  *)
(* calls that changed the path, in order.                                  *)
(***************************************************************************)
ASPath ==
    [start_as |-> "", end_as |-> "",
     as_path |-> <<>>, ip_path |-> <<>>,
     ixp_indexes |-> {}, attributes |-> {},
     too_many_hops |-> FALSE, errors |-> FALSE,
     seen |-> {}, calls |-> <<>>]

set_start_end_asn(path, start, end) ==
    [path EXCEPT !.start_as = start, !.end_as = end]

contains_ip(path, ip) == ip \in path.seen

\* append(as, ip, ixp=False): one position, indexes counted from 0
append(path, tok, ip, ixp) ==
    [path EXCEPT !.as_path = Append(@, Single(tok)),
                 !.ip_path = Append(@, Single(ip)),
                 !.ixp_indexes = IF ixp THEN @ \cup {Len(path.as_path)} ELSE @,
                 !.seen = IF ip = Star THEN @ ELSE @ \cup {ip},
                 !.calls = Append(@, <<"append", tok>>)]

\* append_set(as_set, ip_set, contains_ixp): the whole tuple is one position
append_set(path, as_set, ip_set, contains_ixp) ==
    [path EXCEPT !.as_path = Append(@, SetOf(as_set)),
                 !.ip_path = Append(@, SetOf(ip_set)),
                 !.ixp_indexes = IF contains_ixp THEN @ \cup {Len(path.as_path)} ELSE @,
                 !.seen = @ \cup {ip_set[i] : i \in 1..Len(ip_set)},
                 !.calls = Append(@, <<"append_set", "">>)]

\* mark_hop_error(error_str): annotates the position about to be appended
mark_hop_error(path, error_str) ==
    [path EXCEPT !.attributes = @ \cup {<<Len(path.as_path), error_str>>},
                 !.errors = TRUE,
                 !.calls = Append(@, <<"mark_hop_error", error_str>>)]

flag_too_many_hops(path) ==
    [path EXCEPT !.too_many_hops = TRUE,
                 !.calls = Append(@, <<"flag_too_many_hops", "">>)]

has_too_many_hops(path) == path.too_many_hops

has_errors(path) == path.errors

get_raw_path(path) == <<path.as_path, path.ip_path>>

get_raw_ixp_indexes(path) == path.ixp_indexes

(***************************************************************************)
(* process_hop(msg, hop, lookup, path).                                    *)
(*   hop   : [keys \subseteq {"error","result","hop"}, hop, result]        *)
(*   reply : [keys \subseteq {"error","err","from","x"}, from, err]        *)
(* The result is [raised, ret, stats, path]: ret is the returned bool      *)
(* (TRUE = the traceroute did not finish), raised a KeyError.              *)
(***************************************************************************)

\* ScanReplies skipping every reply with an error code, seen or not
RECURSIVE ScanReplies_SkipAllErrors(_, _, _, _, _)
ScanReplies_SkipAllErrors(replies, i, path, reply_addresses, errors_in_hop) ==
    IF i > Len(replies)
    THEN [error |-> FALSE, reply_addresses |-> reply_addresses,
          errors_in_hop |-> errors_in_hop]
    ELSE LET reply == replies[i] IN
         IF "error" \in reply.keys
         THEN [error |-> TRUE, reply_addresses |-> reply_addresses,
               errors_in_hop |-> errors_in_hop]
         ELSE IF "err" \in reply.keys /\ "from" \in reply.keys
         THEN ScanReplies_SkipAllErrors(replies, i + 1, path, reply_addresses,
                                        errors_in_hop)
         ELSE IF "x" \in reply.keys \/ "from" \notin reply.keys
         THEN ScanReplies_SkipAllErrors(replies, i + 1, path,
                                        reply_addresses \cup {Star}, errors_in_hop)
         ELSE ScanReplies_SkipAllErrors(replies, i + 1, path,
                                        reply_addresses \cup {reply.from},
                                        errors_in_hop)

\* ScanReplies honouring the error reply of an address already in the path
RECURSIVE ScanReplies_NeverSkip(_, _, _, _, _)
ScanReplies_NeverSkip(replies, i, path, reply_addresses, errors_in_hop) ==
    IF i > Len(replies)
    THEN [error |-> FALSE, reply_addresses |-> reply_addresses,
          errors_in_hop |-> errors_in_hop]
    ELSE LET reply == replies[i] IN
         IF "error" \in reply.keys
         THEN [error |-> TRUE, reply_addresses |-> reply_addresses,
               errors_in_hop |-> errors_in_hop]
         ELSE IF "x" \in reply.keys \/ "from" \notin reply.keys
         THEN ScanReplies_NeverSkip(replies, i + 1, path,
                                    reply_addresses \cup {Star}, errors_in_hop)
         ELSE ScanReplies_NeverSkip(replies, i + 1, path,
                                    reply_addresses \cup {reply.from},
                                    IF "err" \in reply.keys
                                    THEN errors_in_hop \cup {Str(reply.err)}
                                    ELSE errors_in_hop)

\* for reply in replies: ... (lines 75-101); error = the loop returned True
RECURSIVE ScanReplies(_, _, _, _, _)
ScanReplies(replies, i, path, reply_addresses, errors_in_hop) ==
    IF i > Len(replies)
    THEN [error |-> FALSE, reply_addresses |-> reply_addresses,
          errors_in_hop |-> errors_in_hop]
    ELSE LET reply == replies[i] IN
         IF "error" \in reply.keys
         THEN [error |-> TRUE, reply_addresses |-> reply_addresses,
               errors_in_hop |-> errors_in_hop]
         ELSE IF /\ "err" \in reply.keys
                 /\ "from" \in reply.keys
                 /\ contains_ip(path, reply.from)
         THEN ScanReplies(replies, i + 1, path, reply_addresses, errors_in_hop)
         ELSE IF "x" \in reply.keys
         THEN ScanReplies(replies, i + 1, path, reply_addresses \cup {Star},
                          errors_in_hop)
         ELSE IF "from" \notin reply.keys
         THEN ScanReplies(replies, i + 1, path, reply_addresses \cup {Star},
                          errors_in_hop)
         ELSE ScanReplies(replies, i + 1, path,
                          reply_addresses \cup {reply.from},
                          IF "err" \in reply.keys
                          THEN errors_in_hop \cup {Str(reply.err)}
                          ELSE errors_in_hop)

\* BuildSets adding the address of an IXP member to ip_set three times only
RECURSIVE BuildSets_ShortIpSet(_, _, _, _, _)
BuildSets_ShortIpSet(addresses, i, as_set, ip_set, contains_ixp) ==
    IF i > Len(addresses)
    THEN [as_set |-> as_set, ip_set |-> ip_set, contains_ixp |-> contains_ixp]
    ELSE LET address == addresses[i]
             ixp == ip2ixpid(address)
             asn == ip2asn(address)
         IN IF ixp # 0
            THEN BuildSets_ShortIpSet(addresses, i + 1,
                           as_set \o <<TokIx(ixp), TokIxAs(ixp, asn), TokIp(address),
                                       TokAs(asn)>>,
                           ip_set \o <<address, address, address>>,
                           TRUE)
            ELSE BuildSets_ShortIpSet(addresses, i + 1,
                           Append(as_set, TokAs(asn)),
                           Append(ip_set, address),
                           contains_ixp)

\* for address in sorted(reply_addresses): ... (lines 133-146)
RECURSIVE BuildSets(_, _, _, _, _)
BuildSets(addresses, i, as_set, ip_set, contains_ixp) ==
    IF i > Len(addresses)
    THEN [as_set |-> as_set, ip_set |-> ip_set, contains_ixp |-> contains_ixp]
    ELSE LET address == addresses[i]
             ixp == ip2ixpid(address)
             asn == ip2asn(address)
         IN IF ixp # 0
            THEN BuildSets(addresses, i + 1,
                           as_set \o <<TokIx(ixp), TokIxAs(ixp, asn), TokIp(address),
                                       TokAs(asn)>>,
                           ip_set \o <<address, address, address, address>>,
                           TRUE)
            ELSE BuildSets(addresses, i + 1,
                           Append(as_set, TokAs(asn)),
                           Append(ip_set, address),
                           contains_ixp)

\* HailMary without path.flag_too_many_hops()
HailMary_NoFlag(path) == append(path, TokTimeout, Star, FALSE)

\* the hop-255 branch (lines 113-120)
HailMary(path) == flag_too_many_hops(append(path, TokTimeout, Star, FALSE))

\* path.append_set(tuple(as_set), tuple(ip_set), contains_ixp) (line 149)
AppendBuiltSets(marked, b) == append_set(marked, b.as_set, b.ip_set, b.contains_ixp)
\* AppendResolved marking the plain AS entry of an IXP address as well
AppendResolved_MarkAll(marked, address, ixp, asn) ==
    IF ixp # 0
    THEN append(append(append(append(marked,
             TokIx(ixp), address, TRUE),
             TokIxAs(ixp, asn), address, TRUE),
             TokIp(address), address, TRUE),
             TokAs(asn), address, TRUE)
    ELSE append(marked, TokAs(asn), address, FALSE)

\* the appends of a single resolved address (lines 157-163)
AppendResolved(marked, address, ixp, asn) ==
    IF ixp # 0
    THEN append(append(append(append(marked,
             TokIx(ixp), address, TRUE),
             TokIxAs(ixp, asn), address, TRUE),
             TokIp(address), address, TRUE),
             TokAs(asn), address, FALSE)
    ELSE append(marked, TokAs(asn), address, FALSE)
\* AppendAddresses appending nothing for a hop that only timed out
AppendAddresses_DropTimeout(path, marked, reply_addresses) ==
    IF Cardinality(reply_addresses) > 1
    THEN AppendBuiltSets(marked,
             BuildSets(SortedAddrs(reply_addresses), 1, <<>>, <<>>, FALSE))
    ELSE IF reply_addresses = {Star}
    THEN path
    ELSE AppendResolved(marked,
                        CHOOSE a \in reply_addresses : TRUE,
                        ip2ixpid(CHOOSE a \in reply_addresses : TRUE),
                        ip2asn(CHOOSE a \in reply_addresses : TRUE))

\* AppendAddresses taking the first of several addresses as the only one
AppendAddresses_FirstOnly(path, marked, reply_addresses) ==
    IF reply_addresses = {Star}
    THEN append(path, TokTimeout, Star, FALSE)
    ELSE AppendResolved(marked,
                        SortedAddrs(reply_addresses)[1],
                        ip2ixpid(SortedAddrs(reply_addresses)[1]),
                        ip2asn(SortedAddrs(reply_addresses)[1]))

\* lines 131-163 for the addresses left after the placeholder is discarded;
\* marked is the path after mark_hop_error, if the hop has error codes
AppendAddresses(path, marked, reply_addresses) ==
    IF Cardinality(reply_addresses) > 1
    THEN AppendBuiltSets(marked,
             BuildSets(SortedAddrs(reply_addresses), 1, <<>>, <<>>, FALSE))
    ELSE IF reply_addresses = {Star}
    THEN append(path, TokTimeout, Star, FALSE)
    ELSE AppendResolved(marked,
                        CHOOSE a \in reply_addresses : TRUE,
                        ip2ixpid(CHOOSE a \in reply_addresses : TRUE),
                        ip2asn(CHOOSE a \in reply_addresses : TRUE))

\* AppendHop without reply_addresses.discard('*')
AppendHop_KeepPlaceholder(path, reply_addresses, errors_in_hop) ==
    AppendAddresses(path,
                    IF errors_in_hop # {}
                    THEN mark_hop_error(path, JoinSorted(errors_in_hop))
                    ELSE path,
                    reply_addresses)

\* AppendHop calling mark_hop_error after the hop is appended
AppendHop_MarkAfter(path, reply_addresses, errors_in_hop) ==
    IF errors_in_hop # {}
    THEN mark_hop_error(AppendAddresses(path, path,
                                        IF Cardinality(reply_addresses) > 1
                                        THEN reply_addresses \ {Star}
                                        ELSE reply_addresses),
                        JoinSorted(errors_in_hop))
    ELSE AppendAddresses(path, path,
                         IF Cardinality(reply_addresses) > 1
                         THEN reply_addresses \ {Star}
                         ELSE reply_addresses)

\* the appends of a hop that is neither unreachable nor TTL 255 (lines 121-164)
AppendHop(path, reply_addresses, errors_in_hop) ==
    AppendAddresses(path,
                    IF errors_in_hop # {}
                    THEN mark_hop_error(path, JoinSorted(errors_in_hop))
                    ELSE path,
                    IF Cardinality(reply_addresses) > 1
                    THEN reply_addresses \ {Star}
                    ELSE reply_addresses)

\* stats['dnf'] += 1; return True
DidNotFinish(st, path) ==
    [raised |-> FALSE, ret |-> TRUE,
     stats |-> [st EXCEPT !.dnf = @ + 1], path |-> path]
\* AfterReplies taking a hop without addresses for a timeout
AfterReplies_EmptyIsTimeout(st, hop, path, scan) ==
    IF scan.error
    THEN DidNotFinish(st, path)
    ELSE IF "hop" \notin hop.keys
    THEN DidNotFinish(st, path)
    ELSE IF hop.hop = 255
    THEN [raised |-> FALSE, ret |-> FALSE, stats |-> st, path |-> HailMary(path)]
    ELSE [raised |-> FALSE, ret |-> FALSE, stats |-> st,
          path |-> AppendHop(path,
                             IF scan.reply_addresses = {} THEN {Star}
                             ELSE scan.reply_addresses,
                             scan.errors_in_hop)]

\* lines 102-164, after the loop over the replies
AfterReplies(st, hop, path, scan) ==
    IF scan.error
    THEN DidNotFinish(st, path)
    ELSE IF Cardinality(scan.reply_addresses) = 0
    THEN DidNotFinish(st, path)
    ELSE IF "hop" \notin hop.keys
    THEN DidNotFinish(st, path)
    ELSE IF hop.hop = 255
    THEN [raised |-> FALSE, ret |-> FALSE, stats |-> st, path |-> HailMary(path)]
    ELSE [raised |-> FALSE, ret |-> FALSE, stats |-> st,
          path |-> AppendHop(path, scan.reply_addresses, scan.errors_in_hop)]

process_hop(st, hop, path) ==
    IF "error" \in hop.keys
    THEN DidNotFinish(st, path)
    ELSE IF "result" \notin hop.keys
    THEN \* hop['result'] raises KeyError
         [raised |-> TRUE, ret |-> FALSE, stats |-> st, path |-> path]
    ELSE AfterReplies(st, hop, path, ScanReplies(hop.result, 1, path, {}, {}))

(***************************************************************************)
(* ASPath.get_reduced_path(stats) and get_reduced_ixp_indexes().           *)
(* Timeout placeholders are left out of the reduced path, neighbours that  *)
(* are equal among the remaining positions collapse into their first       *)
(* occurrence, and the length is the number of tokens that remain.  The    *)
(* reducer counts empty_path; single_as is counted by its caller           *)
(* (process_message, line 227).                                            *)
(***************************************************************************)
SamePosition(p, q) ==
    /\ p.set = q.set
    /\ IF p.set
       THEN {p.toks[i] : i \in 1..Len(p.toks)} = {q.toks[i] : i \in 1..Len(q.toks)}
       ELSE p.toks = q.toks

IsTimeout(p) == ~p.set /\ p.toks = <<TokTimeout>>

\* the last position before i that is not a timeout placeholder, 0 if none
LastResolved(as_path, i) ==
    IF \A j \in 1..(i - 1) : IsTimeout(as_path[j]) THEN 0
    ELSE CHOOSE j \in 1..(i - 1) :
            /\ ~IsTimeout(as_path[j])
            /\ \A k \in (j + 1)..(i - 1) : IsTimeout(as_path[k])

\* KeptPositions comparing a position with its raw neighbour, placeholder or not
RECURSIVE KeptPositions_RawNeighbour(_, _)
KeptPositions_RawNeighbour(as_path, i) ==
    IF i > Len(as_path) THEN <<>>
    ELSE IF \/ IsTimeout(as_path[i])
            \/ (i > 1 /\ SamePosition(as_path[i], as_path[i - 1]))
         THEN KeptPositions_RawNeighbour(as_path, i + 1)
         ELSE <<i>> \o KeptPositions_RawNeighbour(as_path, i + 1)

\* the (1-based) raw positions that survive the reduction, in order: the
\* placeholders are dropped, and of equal neighbours among the rest the first
\* is kept
RECURSIVE KeptPositions(_, _)
KeptPositions(as_path, i) ==
    IF i > Len(as_path) THEN <<>>
    ELSE IF \/ IsTimeout(as_path[i])
            \/ /\ LastResolved(as_path, i) # 0
               /\ SamePosition(as_path[i], as_path[LastResolved(as_path, i)])
         THEN KeptPositions(as_path, i + 1)
         ELSE <<i>> \o KeptPositions(as_path, i + 1)

\* the entries of a raw sequence at the kept positions
KeptEntries(entries, kept) == [k \in 1..Len(kept) |-> entries[kept[k]]]

ReducedAsPath(path) == KeptEntries(path.as_path, KeptPositions(path.as_path, 1))

ReducedIpPath(path) == KeptEntries(path.ip_path, KeptPositions(path.as_path, 1))

\* the (0-based) reduced positions whose raw position is an IXP position
KeptIxpIndexes(kept, ixp_indexes) ==
    {k - 1 : k \in {j \in 1..Len(kept) : (kept[j] - 1) \in ixp_indexes}}

get_reduced_ixp_indexes(path) ==
    KeptIxpIndexes(KeptPositions(path.as_path, 1), path.ixp_indexes)

\* the anomaly counters of the reducer, for a non-empty reduced path
ReducerAnomalies(start, end, reduced, st) ==
    [st EXCEPT
       !.start_as_missing = IF reduced[1] # start THEN @ + 1 ELSE @,
       !.end_as_missing = IF reduced[Len(reduced)] # end THEN @ + 1 ELSE @,
       !.start_as_in_path =
           IF \E k \in 2..Len(reduced) : reduced[k] = start THEN @ + 1 ELSE @,
       !.end_as_in_path =
           IF \E k \in 1..(Len(reduced) - 1) : reduced[k] = end THEN @ + 1 ELSE @,
       !.as_set = IF \E k \in 1..Len(reduced) : reduced[k].set THEN @ + 1 ELSE @]

\* the result of the reducer for the reduced AS path
ReducerResult(path, st, reduced) ==
    [reduced_path |-> reduced,
     reduced_ip_path |-> ReducedIpPath(path),
     reduced_path_len |-> Len(reduced),
     stats |-> IF Len(reduced) = 0
               THEN [st EXCEPT !.empty_path = @ + 1]
               ELSE ReducerAnomalies(Single(TokAs(path.start_as)),
                                     Single(TokAs(path.end_as)), reduced, st)]

get_reduced_path(path, st) == ReducerResult(path, st, ReducedAsPath(path))

(***************************************************************************)
(* process_message(msg, lookup, seen_peer_prefixes, unified_timestamp,     *)
(*                 msm_ids, probe_ids, target_asn, include_duplicates).    *)
(*   msg : [keys \subseteq {"msm_id","prb_id","from","result"},            *)
(*          msm_id, prb_id, dst_addr, from, result]                        *)
(*   cfg : the arguments main derives from the configuration               *)
(***************************************************************************)

\* atlas_api_helper.get_dst_addr(msg): the destination address, or empty
get_dst_addr(msg) == msg.dst_addr

\* the module-level stats dict (lines 17-38)
stats0 ==
    [total |-> 0, no_dst_addr |-> 0, no_dst_asn |-> 0, no_prefix |-> 0,
     no_from |-> 0, no_peer_asn |-> 0, duplicate |-> 0, changed_ip |-> 0,
     accepted |-> 0, dnf |-> 0, empty_path |-> 0, end_as_in_path |-> 0,
     start_as_in_path |-> 0, single_as |-> 0, used |-> 0, too_many_hops |-> 0,
     errors |-> 0, start_as_missing |-> 0, end_as_missing |-> 0,
     ixp_in_path |-> 0, as_set |-> 0, scopes |-> {}]

\* Python values that are None, an int or a str: values of different kinds
\* are never equal, 1 != '1'
NoPrbId == [kind |-> "none", n |-> 0, s |-> ""]
IntPrbId(n) == [kind |-> "int", n |-> n, s |-> ""]
StrPrbId(s) == [kind |-> "str", n |-> 0, s |-> s]

\* a Python int and a Python str
PyInt(n) == IntPrbId(n)
PyStr(s) == StrPrbId(s)

\* str(n) for the small numbers of the inputs
DecimalString(n) ==
    CASE n = 0 -> "0"
      [] n = 1 -> "1"
      [] n = 2 -> "2"

\* str(value) of a str or of an int
str(value) == IF value.kind = "str" THEN value.s ELSE DecimalString(value.n)

\* msg['prb_id'] in probe_ids (line 176), for the int prb_id of a message
InProbeIds(prb_id, probe_ids) == IntPrbId(prb_id) \in probe_ids

\* the allow-list condition of lines 175-176 raises KeyError
FilterRaises(msg, cfg) ==
    \/ cfg.has_msm_ids /\ "msm_id" \notin msg.keys
    \/ /\ ~(cfg.has_msm_ids /\ msg.msm_id \notin cfg.msm_ids)
       /\ cfg.has_probe_ids /\ "prb_id" \notin msg.keys

\* the allow-list condition of lines 175-176
Excluded(msg, cfg) ==
    \/ cfg.has_msm_ids /\ msg.msm_id \notin cfg.msm_ids
    \/ cfg.has_probe_ids /\ ~InProbeIds(msg.prb_id, cfg.probe_ids)

\* IsDuplicate with the membership test lost
IsDuplicate_Never(peer_prefix_tuple, seen, include_duplicates) == FALSE

\* IsDuplicate with "and not include_duplicates" lost
IsDuplicate_IgnoreFlag(peer_prefix_tuple, seen, include_duplicates) ==
    peer_prefix_tuple \in seen

\* peer_prefix_tuple in seen_peer_prefixes and not include_duplicates (line 205)
IsDuplicate(peer_prefix_tuple, seen, include_duplicates) ==
    peer_prefix_tuple \in seen /\ ~include_duplicates

\* Precheck with the source-address check moved before the prefix check
Precheck_FromFirst(msg, cfg, seen) ==
    LET dst_addr == get_dst_addr(msg)
        dst_asn == ip2asn(dst_addr)
        prefix == ip2prefix(dst_addr)
    IN IF dst_addr = "" THEN "no_dst_addr"
       ELSE IF dst_asn = "0" THEN "no_dst_asn"
       ELSE IF cfg.has_target_asn /\ dst_asn # cfg.target_asn THEN "filtered"
       ELSE IF "from" \notin msg.keys \/ msg.from = "" THEN "no_from"
       ELSE IF prefix = "" THEN "no_prefix"
       ELSE IF ip2asn(msg.from) = "0" THEN "no_peer_asn"
       ELSE IF IsDuplicate(<<msg.from, prefix>>, seen, cfg.include_duplicates)
            THEN "duplicate"
       ELSE "ok"

\* the checks of lines 179-208 in order: the counter of the first check that
\* fails, "filtered" for the target-ASN filter, "ok" when all pass
Precheck(msg, cfg, seen) ==
    LET dst_addr == get_dst_addr(msg)
        dst_asn == ip2asn(dst_addr)
        prefix == ip2prefix(dst_addr)
    IN IF dst_addr = "" THEN "no_dst_addr"
       ELSE IF dst_asn = "0" THEN "no_dst_asn"
       ELSE IF cfg.has_target_asn /\ dst_asn # cfg.target_asn THEN "filtered"
       ELSE IF prefix = "" THEN "no_prefix"
       ELSE IF "from" \notin msg.keys \/ msg.from = "" THEN "no_from"
       ELSE IF ip2asn(msg.from) = "0" THEN "no_peer_asn"
       ELSE IF IsDuplicate(<<msg.from, prefix>>, seen, cfg.include_duplicates)
            THEN "duplicate"
       ELSE "ok"
\* TrackProbeIp counting every message of a probe already in the map
TrackProbeIp_CountKnownProbe(msg, st, pmap) ==
    [stats |-> IF msg.prb_id \in DOMAIN pmap
               THEN [st EXCEPT !.changed_ip = @ + 1]
               ELSE st,
     probe_ip_map |-> [p \in DOMAIN pmap \cup {msg.prb_id} |->
                          IF p = msg.prb_id THEN msg.from ELSE pmap[p]]]

\* lines 209-214: count a changed probe address, then remember the address
TrackProbeIp(msg, st, pmap) ==
    [stats |-> IF msg.prb_id \in DOMAIN pmap /\ msg.from # pmap[msg.prb_id]
               THEN [st EXCEPT !.changed_ip = @ + 1]
               ELSE st,
     probe_ip_map |-> [p \in DOMAIN pmap \cup {msg.prb_id} |->
                          IF p = msg.prb_id THEN msg.from ELSE pmap[p]]]

RECURSIVE FoldHops(_, _, _, _)

\* FoldStep that goes on to the next hop when process_hop returned True
FoldStep_Continue(traceroute, i, h) ==
    IF h.raised
    THEN [raised |-> h.raised, ret |-> h.ret, stats |-> h.stats,
          path |-> h.path, hops_done |-> i]
    ELSE FoldHops(h.stats, traceroute, i + 1, h.path)

\* if process_hop(msg, hop, lookup, path): return dict()  (lines 220-221);
\* h is the result of process_hop for hop i
FoldStep(traceroute, i, h) ==
    IF h.raised \/ h.ret
    THEN [raised |-> h.raised, ret |-> h.ret, stats |-> h.stats,
          path |-> h.path, hops_done |-> i]
    ELSE FoldHops(h.stats, traceroute, i + 1, h.path)

\* for hop in traceroute: ...  (lines 219-221)
FoldHops(st, traceroute, i, path) ==
    IF i > Len(traceroute)
    THEN [raised |-> FALSE, ret |-> FALSE, stats |-> st, path |-> path,
          hops_done |-> i - 1]
    ELSE FoldStep(traceroute, i, process_hop(st, traceroute[i], path))

\* the record of lines 235-253
OutputRecord(msg, cfg, peer_asn, prefix, path, red) ==
    [rec |-> [status |-> "valid", time |-> cfg.unified_timestamp],
     type |-> "R",
     peer_address |-> msg.from,
     peer_asn |-> peer_asn,
     prb_id |-> msg.prb_id,
     fields |-> [as_path |-> red.reduced_path,
                 ip_path |-> red.reduced_ip_path,
                 ixp_path_indexes |-> get_reduced_ixp_indexes(path),
                 full_as_path |-> get_raw_path(path)[1],
                 full_ip_path |-> get_raw_path(path)[2],
                 full_ixp_path_indexes |-> get_raw_ixp_indexes(path),
                 prefix |-> prefix,
                 path_attributes |-> path.attributes]]

\* Finish counting a single-AS path twice
Finish_SingleAsTwice(msg, cfg, seen, peer_asn, dst_asn, prefix, path, red) ==
    IF red.reduced_path_len = 0
    THEN [ret |-> <<>>, stats |-> red.stats, seen |-> seen]
    ELSE IF red.reduced_path_len = 1
    THEN [ret |-> <<>>, stats |-> [red.stats EXCEPT !.single_as = @ + 2],
          seen |-> seen]
    ELSE [ret |-> <<OutputRecord(msg, cfg, peer_asn, prefix, path, red)>>,
          stats |-> [red.stats EXCEPT
                       !.used = @ + 1,
                       !.too_many_hops = IF has_too_many_hops(path) THEN @ + 1 ELSE @,
                       !.errors = IF has_errors(path) THEN @ + 1 ELSE @,
                       !.ixp_in_path = IF get_reduced_ixp_indexes(path) # {}
                                       THEN @ + 1 ELSE @,
                       !.scopes = @ \cup {dst_asn}],
          seen |-> seen \cup {<<msg.from, prefix>>}]

\* Finish without the check for a reduced path of length one
Finish_EmitSingleAs(msg, cfg, seen, peer_asn, dst_asn, prefix, path, red) ==
    IF red.reduced_path_len = 0
    THEN [ret |-> <<>>, stats |-> red.stats, seen |-> seen]
    ELSE [ret |-> <<OutputRecord(msg, cfg, peer_asn, prefix, path, red)>>,
          stats |-> [red.stats EXCEPT
                       !.used = @ + 1,
                       !.too_many_hops = IF has_too_many_hops(path) THEN @ + 1 ELSE @,
                       !.errors = IF has_errors(path) THEN @ + 1 ELSE @,
                       !.ixp_in_path = IF get_reduced_ixp_indexes(path) # {}
                                       THEN @ + 1 ELSE @,
                       !.scopes = @ \cup {dst_asn}],
          seen |-> seen \cup {<<msg.from, prefix>>}]

\* Finish counting used only for paths without a hop 255
Finish_UsedOnTooMany(msg, cfg, seen, peer_asn, dst_asn, prefix, path, red) ==
    IF red.reduced_path_len = 0
    THEN [ret |-> <<>>, stats |-> red.stats, seen |-> seen]
    ELSE IF red.reduced_path_len = 1
    THEN [ret |-> <<>>, stats |-> [red.stats EXCEPT !.single_as = @ + 1],
          seen |-> seen]
    ELSE [ret |-> <<OutputRecord(msg, cfg, peer_asn, prefix, path, red)>>,
          stats |-> [red.stats EXCEPT
                       !.used = IF has_too_many_hops(path) THEN @ ELSE @ + 1,
                       !.too_many_hops = IF has_too_many_hops(path) THEN @ + 1 ELSE @,
                       !.errors = IF has_errors(path) THEN @ + 1 ELSE @,
                       !.ixp_in_path = IF get_reduced_ixp_indexes(path) # {}
                                       THEN @ + 1 ELSE @,
                       !.scopes = @ \cup {dst_asn}],
          seen |-> seen \cup {<<msg.from, prefix>>}]
\* Finish without stats['scopes'].add(dst_asn)
Finish_NoScope(msg, cfg, seen, peer_asn, dst_asn, prefix, path, red) ==
    IF red.reduced_path_len = 0
    THEN [ret |-> <<>>, stats |-> red.stats, seen |-> seen]
    ELSE IF red.reduced_path_len = 1
    THEN [ret |-> <<>>, stats |-> [red.stats EXCEPT !.single_as = @ + 1],
          seen |-> seen]
    ELSE [ret |-> <<OutputRecord(msg, cfg, peer_asn, prefix, path, red)>>,
          stats |-> [red.stats EXCEPT
                       !.used = @ + 1,
                       !.too_many_hops = IF has_too_many_hops(path) THEN @ + 1 ELSE @,
                       !.errors = IF has_errors(path) THEN @ + 1 ELSE @,
                       !.ixp_in_path = IF get_reduced_ixp_indexes(path) # {}
                                       THEN @ + 1 ELSE @],
          seen |-> seen \cup {<<msg.from, prefix>>}]
\* Finish adding the key to the dedup set for a single-AS path as well
Finish_SeenOnSingleAs(msg, cfg, seen, peer_asn, dst_asn, prefix, path, red) ==
    IF red.reduced_path_len = 0
    THEN [ret |-> <<>>, stats |-> red.stats, seen |-> seen]
    ELSE IF red.reduced_path_len = 1
    THEN [ret |-> <<>>, stats |-> [red.stats EXCEPT !.single_as = @ + 1],
          seen |-> seen \cup {<<msg.from, prefix>>}]
    ELSE [ret |-> <<OutputRecord(msg, cfg, peer_asn, prefix, path, red)>>,
          stats |-> [red.stats EXCEPT
                       !.used = @ + 1,
                       !.too_many_hops = IF has_too_many_hops(path) THEN @ + 1 ELSE @,
                       !.errors = IF has_errors(path) THEN @ + 1 ELSE @,
                       !.ixp_in_path = IF get_reduced_ixp_indexes(path) # {}
                                       THEN @ + 1 ELSE @,
                       !.scopes = @ \cup {dst_asn}],
          seen |-> seen \cup {<<msg.from, prefix>>}]

\* lines 223-259: reject short paths, count and emit the record;
\* red is the result of path.get_reduced_path(stats)
Finish(msg, cfg, seen, peer_asn, dst_asn, prefix, path, red) ==
    IF red.reduced_path_len = 0
    THEN [ret |-> <<>>, stats |-> red.stats, seen |-> seen]
    ELSE IF red.reduced_path_len = 1
    THEN [ret |-> <<>>, stats |-> [red.stats EXCEPT !.single_as = @ + 1],
          seen |-> seen]
    ELSE [ret |-> <<OutputRecord(msg, cfg, peer_asn, prefix, path, red)>>,
          stats |-> [red.stats EXCEPT
                       !.used = @ + 1,
                       !.too_many_hops = IF has_too_many_hops(path) THEN @ + 1 ELSE @,
                       !.errors = IF has_errors(path) THEN @ + 1 ELSE @,
                       !.ixp_in_path = IF get_reduced_ixp_indexes(path) # {}
                                       THEN @ + 1 ELSE @,
                       !.scopes = @ \cup {dst_asn}],
          seen |-> seen \cup {<<msg.from, prefix>>}]

\* The result: raised (an exception left the call), ret (<<>> is dict()),
\* the three pieces of state the call updates, and what the call went
\* through: reached (how far it got), path (the ASPath it built),
\* hops_done (the number of process_hop calls).
Result(raised, ret, st, pmap, seen, reached, path, hops_done) ==
    [raised |-> raised, ret |-> ret, stats |-> st, probe_ip_map |-> pmap,
     seen |-> seen, reached |-> reached, path |-> path, hops_done |-> hops_done]

\* return ret / return dict() after the reducer (lines 222-259);
\* e is the result of Finish
AfterReduce(pmap, f, e) ==
    Result(FALSE, e.ret, e.stats, pmap, e.seen, "reduce", f.path, f.hops_done)

\* lines 219-259, after the loop over the hops; f is the result of the loop
AfterFold(msg, cfg, pmap, seen, f) ==
    IF f.raised \/ f.ret
    THEN Result(f.raised, <<>>, f.stats, pmap, seen, "fold", f.path, f.hops_done)
    ELSE AfterReduce(pmap, f,
             Finish(msg, cfg, seen, ip2asn(msg.from), ip2asn(get_dst_addr(msg)),
                    ip2prefix(get_dst_addr(msg)), f.path,
                    get_reduced_path(f.path, f.stats)))

\* lines 215-221; t is the result of lines 209-214
AfterTrack(msg, cfg, seen, t) ==
    IF "result" \notin msg.keys
    THEN \* msg['result'] raises KeyError (line 218)
         Result(TRUE, <<>>, [t.stats EXCEPT !.accepted = @ + 1], t.probe_ip_map,
                seen, "fold",
                set_start_end_asn(ASPath, ip2asn(msg.from), ip2asn(get_dst_addr(msg))),
                0)
    ELSE AfterFold(msg, cfg, t.probe_ip_map, seen,
             FoldHops([t.stats EXCEPT !.accepted = @ + 1], msg.result, 1,
                      set_start_end_asn(ASPath, ip2asn(msg.from),
                                        ip2asn(get_dst_addr(msg)))))

\* lines 179-214; st1 is stats after line 178, pre the outcome of the checks
AfterPrecheck(msg, cfg, st1, pmap, seen, pre) ==
    IF pre = "filtered"
    THEN Result(FALSE, <<>>, st1, pmap, seen, "precheck", ASPath, 0)
    ELSE IF pre # "ok"
    THEN Result(FALSE, <<>>, [st1 EXCEPT ![pre] = @ + 1], pmap, seen,
                "precheck", ASPath, 0)
    ELSE IF "prb_id" \notin msg.keys
    THEN \* msg['prb_id'] raises KeyError (line 209)
         Result(TRUE, <<>>, st1, pmap, seen, "probe", ASPath, 0)
    ELSE AfterTrack(msg, cfg, seen, TrackProbeIp(msg, st1, pmap))
\* process_message counting total before the allow-list filter
process_message_TotalFirst(msg, cfg, st, pmap, seen) ==
    IF FilterRaises(msg, cfg)
    THEN Result(TRUE, <<>>, st, pmap, seen, "filter", ASPath, 0)
    ELSE IF Excluded(msg, cfg)
    THEN Result(FALSE, <<>>, [st EXCEPT !.total = @ + 1], pmap, seen, "filter",
                ASPath, 0)
    ELSE AfterPrecheck(msg, cfg, [st EXCEPT !.total = @ + 1], pmap, seen,
                       Precheck(msg, cfg, seen))

process_message(msg, cfg, st, pmap, seen) ==
    IF FilterRaises(msg, cfg)
    THEN Result(TRUE, <<>>, st, pmap, seen, "filter", ASPath, 0)
    ELSE IF Excluded(msg, cfg)
    THEN Result(FALSE, <<>>, st, pmap, seen, "filter", ASPath, 0)
    ELSE AfterPrecheck(msg, cfg, [st EXCEPT !.total = @ + 1], pmap, seen,
                       Precheck(msg, cfg, seen))

(***************************************************************************)
(* Inputs: replies, hops, traceroutes, messages and configurations.        *)
(***************************************************************************)
Reply(from) == [keys |-> {"from"}, from |-> from, err |-> NoErr]
ReplyErr(from, e) == [keys |-> {"from", "err"}, from |-> from, err |-> e]
ReplyTimeout == [keys |-> {"x"}, from |-> "", err |-> NoErr]
ReplyNoFrom == [keys |-> {}, from |-> "", err |-> NoErr]
ReplyFailed == [keys |-> {"error"}, from |-> "", err |-> NoErr]

Hop(ttl, replies) == [keys |-> {"hop", "result"}, hop |-> ttl, result |-> replies]
HopSendFailed(ttl) == [keys |-> {"hop", "error"}, hop |-> ttl, result |-> <<>>]
HopNoTtl(replies) == [keys |-> {"result"}, hop |-> 0, result |-> replies]
HopNoResult(ttl) == [keys |-> {"hop"}, hop |-> ttl, result |-> <<>>]

\* the traceroutes of the run-level messages
Traceroutes ==
    { <<Hop(1, <<Reply(Transit1)>>), Hop(2, <<Reply(Dst)>>)>>,
      <<>>,
      <<Hop(1, <<ReplyTimeout, ReplyTimeout>>)>>,
      <<Hop(1, <<Reply(Dst)>>)>>,
      <<HopSendFailed(1), Hop(2, <<Reply(Dst)>>)>>,
      <<Hop(1, <<Reply(Transit1)>>), Hop(2, <<>>), Hop(3, <<Reply(Dst)>>)>>,
      <<Hop(1, <<Reply(Transit1)>>), Hop(2, <<ReplyFailed>>), Hop(255, <<Reply(Dst)>>)>>,
      <<Hop(1, <<Reply(Transit1)>>), Hop(255, <<Reply(Transit2)>>), Hop(3, <<Reply(Dst)>>)>>,
      <<Hop(255, <<ReplyTimeout>>)>>,
      <<Hop(1, <<Reply(Transit1)>>), Hop(255, <<ReplyFailed>>), Hop(3, <<Reply(Dst)>>)>>,
      <<Hop(1, <<Reply(Transit1)>>), HopNoTtl(<<Reply(Dst)>>)>>,
      <<Hop(1, <<Reply(Transit1)>>), HopNoResult(2), Hop(3, <<Reply(Dst)>>)>>,
      <<Hop(1, <<ReplyErr(Transit1, ErrH)>>), Hop(2, <<Reply(Dst)>>)>>,
      <<Hop(1, <<Reply(Transit1)>>), Hop(2, <<ReplyErr(Transit1, ErrH)>>),
        Hop(3, <<Reply(Dst)>>)>>,
      <<Hop(1, <<Reply(IxpAddr)>>), Hop(2, <<Reply(Dst)>>)>>,
      <<Hop(1, <<Reply(Transit2), Reply(Transit1)>>), Hop(2, <<ReplyTimeout>>),
        Hop(3, <<Reply(Dst)>>)>>,
      <<Hop(1, <<Reply(Transit1)>>), Hop(2, <<ReplyTimeout>>),
        Hop(3, <<Reply(Transit1)>>), Hop(4, <<Reply(Dst)>>)>> }

GoodTraceroute == <<Hop(1, <<Reply(Transit1)>>), Hop(2, <<Reply(Dst)>>)>>

AllKeys == {"msm_id", "prb_id", "from", "result"}

Msg(keys, msm_id, prb_id, dst_addr, from, result) ==
    [keys |-> keys, msm_id |-> msm_id, prb_id |-> prb_id, dst_addr |-> dst_addr,
     from |-> from, result |-> result]

\* the destinations against a missing, a resolvable and an unresolvable source
\* address, and the good destination against the remaining source addresses
MessagesByAddress ==
    { Msg(AllKeys, 1, 1, d, f, GoodTraceroute) :
        d \in {"", Dst, Unrouted, NoPrefixAddr, PeerDst}, f \in {PeerA, Unrouted} }
    \cup
    { Msg(AllKeys \ {"from"}, 1, 1, d, "", GoodTraceroute) :
        d \in {"", Dst, Unrouted, NoPrefixAddr, PeerDst} }
    \cup
    { Msg(AllKeys, 1, 1, Dst, f, GoodTraceroute) : f \in {"", PeerB} }

\* every traceroute, and one from a peer in the AS of the destination
MessagesByTraceroute ==
    { Msg(AllKeys, 1, 1, Dst, PeerA, r) : r \in Traceroutes }
    \cup { Msg(AllKeys \ {"result"}, 1, 1, Dst, PeerA, <<>>) }
    \cup { Msg(AllKeys, 1, 1, PeerDst, PeerA, <<Hop(1, <<Reply(PeerDst)>>)>>) }

\* every measurement id against every probe id, present or not
MessagesById ==
    { Msg(AllKeys, m, p, Dst, PeerA, GoodTraceroute) : m \in {1, 2}, p \in {1, 2} }
    \cup { Msg(AllKeys \ {"msm_id"}, 0, p, Dst, PeerA, GoodTraceroute) : p \in {1, 2} }
    \cup { Msg(AllKeys \ {"prb_id"}, m, 0, Dst, PeerA, GoodTraceroute) : m \in {1, 2} }
    \cup { Msg(AllKeys \ {"msm_id", "prb_id"}, 0, 0, Dst, PeerA, GoodTraceroute) }

Messages == MessagesByAddress \cup MessagesByTraceroute \cup MessagesById

Config(has_msm, has_probe, has_target, include_duplicates) ==
    [has_msm_ids |-> has_msm, msm_ids |-> IF has_msm THEN {1} ELSE {},
     has_probe_ids |-> has_probe,
     probe_ids |-> IF has_probe THEN {IntPrbId(1)} ELSE {},
     has_target_asn |-> has_target,
     target_asn |-> IF has_target THEN "64501" ELSE "",
     include_duplicates |-> include_duplicates,
     unified_timestamp |-> 1000]

\* the arguments of a run whose probe ids come from the CSV option "1,2"
CsvProbesConfig ==
    [Config(FALSE, TRUE, FALSE, FALSE) EXCEPT
       !.probe_ids = {StrPrbId("1"), StrPrbId("2")}]

Configs ==
    { Config(FALSE, FALSE, FALSE, FALSE),
      Config(FALSE, FALSE, FALSE, TRUE),
      Config(TRUE, TRUE, TRUE, FALSE),
      Config(FALSE, TRUE, FALSE, TRUE),
      CsvProbesConfig }

(***************************************************************************)
(* Startup of traceroute_to_bgp: main up to the creation of the reader and *)
(* the RIB writer (lines 349-448).                                         *)
(*   invocation : what the process is started with                         *)
(*     config  : the configuration file, [keys, <option values>]; keys is  *)
(*               the set of options present, every value is a string       *)
(*     kafka_host : the KAFKA_HOST environment variable, "" when unset     *)
(*     start, stop : the timestamp arguments                               *)
(*     has_output_timestamp, output_timestamp : --output-timestamp         *)
(*     pickle  : what pickle.load yields for a *.pickle.bz2 probe file     *)
(*     lookup_initialized : IPLookup(config).initialized                   *)
(***************************************************************************)
RequiredOptions == {"input.kafka_topic", "output.kafka_topic_prefix", "kafka.retention_ms"}

\* int(value) succeeds (configparser getint, parse_csv_int)
IsIntString(value) == value \in {"1", "2", "86400000"}

IntOf(value) ==
    CASE value = "1" -> 1
      [] value = "2" -> 2
      [] value = "86400000" -> 86400000
      [] OTHER -> 0

\* value.split(',') as a set
SplitCsv(value) ==
    CASE value = "1,2" -> {"1", "2"}
      [] OTHER -> {value}

\* utils.helper_functions.parse_timestamp_argument: epoch seconds, 0 if invalid
parse_timestamp_argument(arg) ==
    CASE arg = "500" -> 500
      [] arg = "1000" -> 1000
      [] OTHER -> 0

\* utils.helper_functions.convert_date_to_epoch: epoch seconds, 0 if invalid
convert_date_to_epoch(arg) ==
    CASE arg = "1970-01-01T00:20" -> 1200
      [] OTHER -> 0

EmptyConfig ==
    [keys |-> {}, retention_ms |-> "", bootstrap_servers |-> "", msm_ids |-> "",
     target_asn |-> "", prb_ids |-> "", include_duplicates |-> ""]

\* check_config (lines 47-63): the configuration, or an empty one when a
\* required option is missing or retention_ms is not an integer
check_config(config) ==
    IF ~(RequiredOptions \subseteq config.keys) THEN EmptyConfig
    ELSE IF ~IsIntString(config.retention_ms) THEN EmptyConfig
    ELSE config

\* read_probes (lines 334-346)
read_probes(probes, pickle) ==
    IF probes = "probes.pickle.bz2"
    THEN IF ~pickle.is_set THEN {} ELSE pickle.elements
    ELSE {StrPrbId(v) : v \in SplitCsv(probes)}

\* lines 424-426: the environment variable, overridden by the option
BootstrapServers(inv) ==
    IF "kafka.bootstrap_servers" \in inv.config.keys
    THEN inv.config.bootstrap_servers
    ELSE inv.kafka_host

\* BootstrapServersMissing accepting an empty server list
BootstrapServersMissing_Never(inv) == FALSE

\* if not bootstrap_servers (line 428)
BootstrapServersMissing(inv) == BootstrapServers(inv) = ""

\* lines 404-410: the probe-id filter, None for an empty set
ProbeFilter(inv) ==
    IF "input.prb_ids" \notin inv.config.keys
    THEN [has |-> FALSE, ids |-> {}]
    ELSE IF read_probes(inv.config.prb_ids, inv.pickle) = {}
    THEN [has |-> FALSE, ids |-> {}]
    ELSE [has |-> TRUE, ids |-> read_probes(inv.config.prb_ids, inv.pickle)]

\* lines 412-419: the output timestamp
UnifiedTimestamp(inv) ==
    IF ~inv.has_output_timestamp
    THEN parse_timestamp_argument(inv.stop)
    ELSE convert_date_to_epoch(inv.output_timestamp)

\* the arguments main passes to process_message (lines 391-434)
Arguments(inv) ==
    [has_msm_ids |-> "input.msm_ids" \in inv.config.keys,
     msm_ids |-> IF "input.msm_ids" \in inv.config.keys
                 THEN {IntOf(v) : v \in SplitCsv(inv.config.msm_ids)}
                 ELSE {},
     has_probe_ids |-> ProbeFilter(inv).has,
     probe_ids |-> ProbeFilter(inv).ids,
     has_target_asn |-> "input.target_asn" \in inv.config.keys
                        /\ inv.config.target_asn # "",
     target_asn |-> IF "input.target_asn" \in inv.config.keys
                    THEN inv.config.target_asn ELSE "",
     include_duplicates |-> "input.include_duplicates" \in inv.config.keys
                            /\ inv.config.include_duplicates = "yes",
     unified_timestamp |-> UnifiedTimestamp(inv)]

\* lines 375-439 end the process: sys.exit(1), or the ValueError of
\* getcsvint leaving main
OptionsFatal(inv) ==
    \/ parse_timestamp_argument(inv.start) = 0
    \/ parse_timestamp_argument(inv.stop) = 0
    \/ /\ "input.msm_ids" \in inv.config.keys
       /\ \E v \in SplitCsv(inv.config.msm_ids) : ~IsIntString(v)
    \/ BootstrapServersMissing(inv)
    \/ ~inv.lookup_initialized

\* the process is started with these
ConfigFile(required, retention_ms, bootstrap, msm, target, prb, dup) ==
    [keys |-> required
              \cup (IF bootstrap[1] THEN {"kafka.bootstrap_servers"} ELSE {})
              \cup (IF msm[1] THEN {"input.msm_ids"} ELSE {})
              \cup (IF target[1] THEN {"input.target_asn"} ELSE {})
              \cup (IF prb[1] THEN {"input.prb_ids"} ELSE {})
              \cup (IF dup[1] THEN {"input.include_duplicates"} ELSE {}),
     retention_ms |-> retention_ms,
     bootstrap_servers |-> bootstrap[2],
     msm_ids |-> msm[2],
     target_asn |-> target[2],
     prb_ids |-> prb[2],
     include_duplicates |-> dup[2]]

Absent == <<FALSE, "">>

Invocation(config, kafka_host, start, has_output_timestamp, output_timestamp,
           pickle, lookup_initialized) ==
    [config |-> config, kafka_host |-> kafka_host, start |-> start, stop |-> "1000",
     has_output_timestamp |-> has_output_timestamp,
     output_timestamp |-> output_timestamp,
     pickle |-> pickle, lookup_initialized |-> lookup_initialized]

PickledProbes == [is_set |-> TRUE, elements |-> {IntPrbId(1)}]

ConfigFiles ==
    { ConfigFile(required, retention_ms, bootstrap, msm, target, prb, Absent) :
        required \in {RequiredOptions} \cup {RequiredOptions \ {o} : o \in RequiredOptions},
        retention_ms \in {"86400000", "soon"},
        bootstrap \in {Absent, <<TRUE, "">>, <<TRUE, "kafka:9092">>},
        msm \in {Absent, <<TRUE, "1">>, <<TRUE, "x">>},
        target \in {Absent, <<TRUE, "">>, <<TRUE, "64501">>},
        prb \in {Absent, <<TRUE, "1,2">>, <<TRUE, "">>, <<TRUE, "probes.pickle.bz2">>} }

Invocations ==
    { Invocation(config, kafka_host, start, out[1], out[2], pickle, initialized) :
        config \in ConfigFiles,
        kafka_host \in {"", "kafka:9092"},
        start \in {"500", "soon"},
        out \in {Absent, <<TRUE, "1970-01-01T00:20">>, <<TRUE, "later">>},
        pickle \in {PickledProbes,
                    [is_set |-> TRUE, elements |-> {}],
                    [is_set |-> FALSE, elements |-> {}]},
        initialized \in BOOLEAN }

\* the invocations of the runs whose records are read below
RunInvocation(msm, target, prb, dup) ==
    Invocation(ConfigFile(RequiredOptions, "86400000", <<TRUE, "kafka:9092">>,
                          msm, target, prb, dup),
               "", "500", FALSE, "", PickledProbes, TRUE)

RunInvocations ==
    { RunInvocation(Absent, Absent, Absent, Absent),
      RunInvocation(Absent, Absent, Absent, <<TRUE, "yes">>),
      RunInvocation(<<TRUE, "1">>, <<TRUE, "64501">>, <<TRUE, "probes.pickle.bz2">>,
                    Absent),
      RunInvocation(Absent, Absent, <<TRUE, "probes.pickle.bz2">>, <<TRUE, "yes">>),
      RunInvocation(Absent, Absent, <<TRUE, "1,2">>, Absent) }

(***************************************************************************)
(* filter_rib_topic: filter_msg and the copy loops of main.                *)
(*   msg     : [keys \subseteq {"rec","elements"}, rec, elements]          *)
(*   rec     : [keys \subseteq {"time"}, time]                             *)
(*   element : [keys \subseteq {"peer_asn","fields","prb_id"}, peer_asn,   *)
(*              prb_id, fields]                                            *)
(*   fields  : [keys \subseteq {"path-attributes"}, path_attributes]       *)
(*   the values of an element's path attributes are Python values          *)
(*   prb_id  : [kind, n, s], kind "none" for None, "int" or "str"          *)
(*   filters : [path_attributes, excluded_path_attributes, asn_list,       *)
(*              prb_list]; an empty dict or set stands for None as well    *)
(***************************************************************************)
MaxRibMsgs == 3

\* utils.helper_functions.check_key: the key is missing
check_key(key, dict) == key \notin dict.keys

\* utils.helper_functions.check_keys: one of the keys is missing
check_keys(keys, dict) == \E key \in keys : key \notin dict.keys

\* prb_id in prb_list for a list of strings
InStrings(value, list) == value.kind = "str" /\ value.s \in list

\* the loop over path_attributes.items() (lines 105-115): filtered
AttributesFiltered(path_attributes, msg_path_attributes) ==
    \E attribute \in DOMAIN path_attributes :
        \/ attribute \notin DOMAIN msg_path_attributes
        \/ str(msg_path_attributes[attribute]) # path_attributes[attribute]

\* lines 96-115: the element is dropped by one of the filters
ElementFiltered(element, prb_id, filters) ==
    \/ filters.asn_list # {} /\ element.peer_asn \notin filters.asn_list
    \/ filters.prb_list # {} /\ ~InStrings(prb_id, filters.prb_list)
    \/ filters.excluded_path_attributes
          \cap DOMAIN element.fields.path_attributes # {}
    \/ AttributesFiltered(filters.path_attributes, element.fields.path_attributes)

\* for element in msg['elements'] (lines 83-116)
RECURSIVE FilterElements(_, _, _, _, _)
FilterElements(elements, i, prb_id, kept, filters) ==
    IF i > Len(elements)
    THEN [elements |-> kept, prb_id |-> prb_id]
    ELSE IF \/ check_keys({"peer_asn", "fields"}, elements[i])
            \/ check_key("path-attributes", elements[i].fields)
    THEN FilterElements(elements, i + 1, prb_id, kept, filters)
    ELSE IF check_key("prb_id", elements[i])
    THEN FilterElements(elements, i + 1, prb_id,
                        IF ElementFiltered(elements[i], prb_id, filters)
                        THEN kept ELSE Append(kept, elements[i]),
                        filters)
    ELSE FilterElements(elements, i + 1, elements[i].prb_id,
                        IF ElementFiltered(elements[i], elements[i].prb_id, filters)
                        THEN kept ELSE Append(kept, elements[i]),
                        filters)

\* return ret, timestamp, prb_id / return dict(), -1, None (lines 117-119)
FilterResult(msg, f) ==
    IF f.elements = <<>>
    THEN [ret |-> <<>>, timestamp |-> -1, prb_id |-> NoPrbId]
    ELSE [ret |-> <<[msg EXCEPT !.elements = f.elements]>>,
          timestamp |-> msg.rec.time, prb_id |-> f.prb_id]

\* filter_msg (lines 70-119)
filter_msg(msg, filters) ==
    IF check_keys({"rec", "elements"}, msg)
    THEN [ret |-> <<>>, timestamp |-> -1, prb_id |-> NoPrbId]
    ELSE IF check_key("time", msg.rec)
    THEN [ret |-> <<>>, timestamp |-> -1, prb_id |-> NoPrbId]
    ELSE FilterResult(msg, FilterElements(msg.elements, 1, NoPrbId, <<>>, filters))

\* prb_id.to_bytes(4, byteorder='big')
ToBytes(n) ==
    <<(n \div 16777216) % 256, (n \div 65536) % 256, (n \div 256) % 256, n % 256>>

\* the key of lines 243-247
RibKey(prb_id) ==
    IF prb_id.kind = "none" THEN [kind |-> "none", bytes |-> <<>>, s |-> ""]
    ELSE IF prb_id.kind = "int"
    THEN [kind |-> "bytes", bytes |-> ToBytes(prb_id.n), s |-> ""]
    ELSE [kind |-> "str", bytes |-> <<>>, s |-> prb_id.s]

\* Inputs: elements, messages of the RIB topic and filter settings
Element(keys, peer_asn, prb_id, attributes) ==
    [keys |-> keys, peer_asn |-> peer_asn, prb_id |-> prb_id,
     fields |-> [keys |-> {"path-attributes"}, path_attributes |-> attributes]]

NoAttributes == [a \in {} |-> ""]

ElementLists ==
    { <<Element({"peer_asn", "fields", "prb_id"}, "64500", IntPrbId(1),
                NoAttributes)>>,
      <<Element({"peer_asn", "fields", "prb_id"}, "64502", IntPrbId(2),
                [a \in {"1"} |-> PyStr("N")])>>,
      <<Element({"peer_asn", "fields"}, "64500", NoPrbId, NoAttributes),
        Element({"peer_asn", "fields", "prb_id"}, "64502", IntPrbId(2),
                NoAttributes)>>,
      <<Element({"peer_asn", "prb_id"}, "64500", IntPrbId(1), NoAttributes)>> }

RibMsg(keys, rec_keys, time, elements) ==
    [keys |-> keys, rec |-> [keys |-> rec_keys, time |-> time],
     elements |-> elements]

RibTimes == {1, 2, 3}

RibMessages ==
    { RibMsg({"rec", "elements"}, {"time"}, t, e) : t \in RibTimes, e \in ElementLists }
    \cup { RibMsg({"elements"}, {}, 0, <<>>),
           RibMsg({"rec", "elements"}, {}, 0, <<>>) }

Filters(path_attributes, excluded, asn_list, prb_list) ==
    [path_attributes |-> path_attributes, excluded_path_attributes |-> excluded,
     asn_list |-> asn_list, prb_list |-> prb_list]

FilterSettings ==
    { Filters(NoAttributes, {}, {}, {}),
      Filters(NoAttributes, {}, {"64500"}, {}),
      Filters(NoAttributes, {"1"}, {}, {}),
      Filters([a \in {"1"} |-> "N"], {}, {}, {}) }

\* the elements of the calls of filter_msg: with a string prb_id, without
\* prb_id, with an attribute of value 1, with an int prb_id and an attribute
\* of value 'N', and without fields
CallElements ==
    { Element({"peer_asn", "fields", "prb_id"}, "64500", StrPrbId("1"), NoAttributes),
      Element({"peer_asn", "fields"}, "64500", NoPrbId, NoAttributes),
      Element({"peer_asn", "fields", "prb_id"}, "64502", StrPrbId("2"),
              [a \in {"1"} |-> PyInt(1)]),
      Element({"peer_asn", "fields", "prb_id"}, "64500", IntPrbId(1),
              [a \in {"1"} |-> PyStr("N")]),
      Element({"peer_asn", "prb_id"}, "64500", StrPrbId("1"), NoAttributes) }

MaxElements == 2

CallElementLists == UNION { [1..n -> CallElements] : n \in 0..MaxElements }

CallMessages ==
    { RibMsg({"rec", "elements"}, {"time"}, 1, e) : e \in CallElementLists }
    \cup { RibMsg({"elements"}, {}, 0, <<>>),
           RibMsg({"rec", "elements"}, {}, 0, <<>>) }

CallFilters ==
    FilterSettings
    \cup { Filters(NoAttributes, {}, {}, {"1"}),
           Filters(NoAttributes, {}, {"64500"}, {"1"}),
           Filters([a \in {"1"} |-> "1"], {}, {}, {}) }

\* msg after the call with ret bound to msg itself: lines 82 and 116 then
\* change the list of msg
InputAfterCall_NoCopy(msg, f) ==
    IF f.ret = <<>> /\ (check_keys({"rec", "elements"}, msg) \/ check_key("time", msg.rec))
    THEN msg
    ELSE [msg EXCEPT !.elements = IF f.ret = <<>> THEN <<>> ELSE f.ret[1].elements]

\* msg after the call: ret is msg.copy() (line 79) and takes a new list
\* (line 82), to which the elements are appended (line 116); msg keeps its
\* keys and its list, and no element is written to
InputAfterCall(msg, f) == msg

\* a call of filter_msg with its arguments
FilterCall(msg, filters) ==
    [pc |-> "called", msg |-> msg, filters |-> filters, msg_after |-> msg,
     result |-> [ret |-> <<>>, timestamp |-> -1, prb_id |-> NoPrbId]]

\* no call of filter_msg
NoFilterCall == [FilterCall(RibMsg({}, {}, 0, <<>>), Filters(NoAttributes, {}, {}, {}))
                   EXCEPT !.pc = "idle"]

UpdateMessages ==
    { RibMsg({"rec", "elements"}, {"time"}, t, <<>>) : t \in {2, 3} }
    \cup { RibMsg({"rec", "elements"}, {}, 0, <<>>) }

UpdateTopics == UNION { [1..n -> UpdateMessages] : n \in 0..2 }

\* FirstIsLater warning for equal timestamps as well
FirstIsLater_OrEqual(last_ts, timestamp) == last_ts >= timestamp

\* if last_ts > timestamp (lines 241 and 276)
FirstIsLater(last_ts, timestamp) == last_ts > timestamp

\* logging.warning(f'Writing out-of-order message: {last_ts} > {timestamp}')
LogOutOfOrder(warnings, last_ts, timestamp) ==
    IF FirstIsLater(last_ts, timestamp)
    THEN Append(warnings, <<last_ts, timestamp>>)
    ELSE warnings

\* with a, b: the context managers are entered, which opens them
EnterWith(opened_now, managers) == opened_now \cup managers

\* LeaveWith closing nothing when the block is left by an exception
LeaveWith_NotOnError(opened_now, managers, raised) ==
    IF raised THEN opened_now ELSE opened_now \ managers

\* the with block is left, by its end or by an exception (raised): the
\* context managers are exited, which closes them
LeaveWith(opened_now, managers, raised) == opened_now \ managers

\* the state of the copy after line 233
RibCopy(filters) ==
    [pc |-> "ribs", filters |-> filters, last_ts |-> -1, nread |-> 0,
     msg |-> RibMsg({}, {}, 0, <<>>),
     rib_written |-> <<>>, warnings |-> <<>>, updates_written |-> <<>>,
     opened |-> EnterWith({}, {"rib_reader", "rib_writer"})]

\* filter_rib_topic is not running
NoRibCopy == [RibCopy(Filters(NoAttributes, {}, {}, {})) EXCEPT !.pc = "idle",
                                                             !.opened = {}]

\* lines 240-249; f is the result of filter_msg
WriteFiltered(copy, f) ==
    IF f.ret = <<>>
    THEN [copy EXCEPT !.nread = @ + 1]
    ELSE [copy EXCEPT
            !.nread = @ + 1,
            !.warnings = LogOutOfOrder(@, copy.last_ts, f.timestamp),
            !.rib_written = Append(@, [key |-> RibKey(f.prb_id), data |-> f.ret[1],
                                       timestamp |-> f.timestamp * 1000]),
            !.last_ts = f.timestamp]

\* update_messages (lines 264-271): the messages that have a time, with it
RECURSIVE ReadUpdates(_, _)
ReadUpdates(msgs, i) ==
    IF i > Len(msgs) THEN <<>>
    ELSE IF check_key("rec", msgs[i]) \/ check_key("time", msgs[i].rec)
    THEN ReadUpdates(msgs, i + 1)
    ELSE <<<<msgs[i].rec.time, msgs[i]>>>> \o ReadUpdates(msgs, i + 1)

\* update_messages.sort(key=lambda t: t[0]) (line 272), a stable sort
RECURSIVE SortByTime(_)
SortByTime(list) ==
    IF list = <<>> THEN <<>>
    ELSE LET m == CHOOSE i \in 1..Len(list) :
                    /\ \A j \in 1..Len(list) : list[i][1] <= list[j][1]
                    /\ \A j \in 1..(i - 1) : list[j][1] # list[i][1]
         IN <<list[m]>> \o SortByTime(SubSeq(list, 1, m - 1)
                                        \o SubSeq(list, m + 1, Len(list)))

\* for timestamp, msg in update_messages (lines 273-279)
RECURSIVE WriteUpdates(_, _, _, _)
WriteUpdates(copy, update_messages, i, last_ts) ==
    IF i > Len(update_messages)
    THEN copy
    ELSE WriteUpdates(
            [copy EXCEPT
               !.warnings = LogOutOfOrder(@, last_ts, update_messages[i][1]),
               !.updates_written =
                   Append(@, [key |-> RibKey(NoPrbId), data |-> update_messages[i][2],
                              timestamp |-> update_messages[i][1] * 1000])],
            update_messages, i + 1, update_messages[i][1])

\* list(s): the elements of a set in some order
Lists(s) ==
    {f \in [1..Cardinality(s) -> s] : \A i, j \in DOMAIN f : i # j => f[i] # f[j]}

(***************************************************************************)
(* atlas_traceroute/download.py: AtlasDownloader.fetch and the chunk loop  *)
(* of main (lines 142-158).  Times are epoch seconds.                      *)
(*   store : the results the Atlas API holds, a set of entries             *)
(*   entry : [msm_id, timestamp]                                           *)
(***************************************************************************)
\* the length of the longest downloaded time window
MaxSpan == 4

\* the response of the API for one measurement: its results between start and
\* stop, both included (lines 42-61)
AtlasResponse(store, msm_id, start, stop) ==
    {e \in store : e.msm_id = msm_id /\ start <= e.timestamp /\ e.timestamp <= stop}

\* fetch (lines 42-81): the results of the measurements whose download did
\* not fail for good, in the order the responses completed
fetch(store, msm_ids, start, stop) ==
    UNION { Lists(UNION {AtlasResponse(store, m, start, stop) : m \in fetched}) :
              fetched \in SUBSET msm_ids }

\* SortByTimestamp leaving the entries in the order of arrival
SortByTimestamp_Unsorted(data) == data

\* data.sort(key=lambda e: e['timestamp']) (line 152), a stable sort
RECURSIVE SortByTimestamp(_)
SortByTimestamp(data) ==
    IF data = <<>> THEN <<>>
    ELSE LET m == CHOOSE i \in 1..Len(data) :
                    /\ \A j \in 1..Len(data) : data[i].timestamp <= data[j].timestamp
                    /\ \A j \in 1..(i - 1) : data[j].timestamp # data[i].timestamp
         IN <<data[m]>> \o SortByTimestamp(SubSeq(data, 1, m - 1)
                                             \o SubSeq(data, m + 1, Len(data)))

\* entry['msm_id'].to_bytes(8, byteorder='big')
ToBytes8(n) == <<0, 0, 0, 0>> \o ToBytes(n)

\* for entry in data: writer.write(...) (lines 153-158)
RECURSIVE WriteEntries(_, _, _)
WriteEntries(records, data, i) ==
    IF i > Len(data) THEN records
    ELSE WriteEntries(Append(records, [key |-> ToBytes8(data[i].msm_id),
                                       data |-> data[i],
                                       timestamp |-> data[i].timestamp * 1000]),
                      data, i + 1)

\* current_chunk_end (lines 145-147)
ChunkEnd(current_chunk_start, chunk_size, end_ts) ==
    IF current_chunk_start + chunk_size >= end_ts
    THEN end_ts - 1
    ELSE current_chunk_start + chunk_size

\* the state of the download when the with block is entered (line 142)
Download(store, start_ts, end_ts, chunk_size) ==
    [pc |-> "chunks", store |-> store, msm_ids |-> {1, 2},
     start_ts |-> start_ts, end_ts |-> end_ts, chunk_size |-> chunk_size,
     current_chunk_start |-> start_ts, chunks |-> 0, windows |-> <<>>,
     data |-> <<>>, written |-> <<>>, opened |-> {"writer"}]

\* self.max_retries = 10 (line 28)
max_retries == 10

\* no fetch call is observed
NoFetch == [pc |-> "idle", msm_ids |-> <<>>, retries |-> 0,
            unfinished_msm_ids |-> <<>>, requested |-> <<>>, results |-> <<>>,
            reported |-> <<>>]

\* download.py is not running
NoDownload == [Download({}, 0, 0, 1) EXCEPT !.pc = "idle", !.opened = {}]

\* Inputs: the results the API holds and the windows that are downloaded
StartTimes == {10}

StoreEntries == [msm_id : {1, 2}, timestamp : 10..(10 + MaxSpan)]

Stores == {s \in SUBSET StoreEntries : Cardinality(s) \in {2, 3}}

Downloads ==
    { Download(store, start_ts, start_ts + span, chunk_size) :
        store \in Stores, start_ts \in StartTimes, span \in 2..MaxSpan,
        chunk_size \in {1, 2, 3} }

(***************************************************************************)
(* extract_traceroute_features: process_hop, process_message and the loop  *)
(* of main (lines 87-157 and 255-265).  In this module the two functions   *)
(* are extract_process_hop and extract_process_message.  The timestamp of  *)
(* a message is copied to its record and is not modelled.                  *)
(*   features : [pc, nread, msg, raised, ret, written]                     *)
(***************************************************************************)
MaxFeatureMsgs == 2

\* IsUnknownAsn comparing with the string '0'
IsUnknownAsn_String(asn) == asn = PyStr("0")

\* dst_asn == 0, peer_asn == 0 (lines 137 and 142)
IsUnknownAsn(asn) == asn = PyInt(0)

\* reply_hop (lines 116-123) and, for an IXP address, ixp_hop (lines
\* 124-129): what one reply yields
ReplyHops(hop, reply) ==
    <<[hop |-> hop.hop, ip |-> reply.from, asn |-> ip2asn(reply.from),
       has_err |-> "err" \in reply.keys, err |-> reply.err]>>
    \o (IF ip2ixpid(reply.from) # 0
        THEN <<[hop |-> hop.hop, ip |-> reply.from,
                asn |-> "-" \o ToString(ip2ixpid(reply.from)),
                has_err |-> "err" \in reply.keys, err |-> reply.err]>>
        ELSE <<>>)

\* for reply in replies (lines 93-129); out are the reply hops yielded so far
RECURSIVE ExtractReplies(_, _, _, _, _)
ExtractReplies(hop, i, seen_ips, reply_addresses, out) ==
    IF i > Len(hop.result)
    THEN [raised |-> FALSE, seen_ips |-> seen_ips, hops |-> out]
    ELSE IF \/ "error" \in hop.result[i].keys
            \/ /\ {"err", "from"} \subseteq hop.result[i].keys
               /\ hop.result[i].from \in seen_ips
            \/ "x" \in hop.result[i].keys
            \/ "from" \notin hop.result[i].keys
            \/ hop.result[i].from \in reply_addresses
    THEN ExtractReplies(hop, i + 1, seen_ips, reply_addresses, out)
    ELSE ExtractReplies(hop, i + 1, seen_ips \cup {hop.result[i].from},
                        reply_addresses \cup {hop.result[i].from},
                        out \o ReplyHops(hop, hop.result[i]))

\* process_hop (lines 87-129); out are the reply hops of the earlier hops
extract_process_hop(hop, seen_ips, out) ==
    IF "error" \in hop.keys \/ "hop" \notin hop.keys \/ hop.hop = 255
    THEN [raised |-> FALSE, seen_ips |-> seen_ips, hops |-> out]
    ELSE IF "result" \notin hop.keys
    THEN \* hop['result'] raises KeyError (line 91)
         [raised |-> TRUE, seen_ips |-> seen_ips, hops |-> out]
    ELSE ExtractReplies(hop, 1, seen_ips, {}, out)

\* the list comprehension of lines 146-148
RECURSIVE ExtractHops(_, _, _)
ExtractHops(hops, i, acc) ==
    IF i > Len(hops) \/ acc.raised THEN acc
    ELSE ExtractHops(hops, i + 1, extract_process_hop(hops[i], acc.seen_ips, acc.hops))

\* lines 149-157; f is the result of the list comprehension
FeatureRecord(msg, f) ==
    IF f.raised THEN [raised |-> TRUE, ret |-> <<>>]
    ELSE IF f.hops = <<>> THEN [raised |-> FALSE, ret |-> <<>>]
    ELSE IF "prb_id" \notin msg.keys
    THEN \* msg['prb_id'] raises KeyError (line 151)
         [raised |-> TRUE, ret |-> <<>>]
    ELSE [raised |-> FALSE,
          ret |-> <<[prb_id |-> msg.prb_id, src_ip |-> msg.from,
                     src_asn |-> ip2asn(msg.from),
                     dst_ip |-> get_dst_addr(msg),
                     dst_asn |-> ip2asn(get_dst_addr(msg)),
                     hops |-> f.hops]>>]

\* process_message (lines 132-157); lookup.ip2asn returns the AS as a str
extract_process_message(msg) ==
    IF get_dst_addr(msg) = "" THEN [raised |-> FALSE, ret |-> <<>>]
    ELSE IF IsUnknownAsn(PyStr(ip2asn(get_dst_addr(msg))))
    THEN [raised |-> FALSE, ret |-> <<>>]
    ELSE IF "from" \notin msg.keys \/ msg.from = ""
    THEN [raised |-> FALSE, ret |-> <<>>]
    ELSE IF IsUnknownAsn(PyStr(ip2asn(msg.from)))
    THEN [raised |-> FALSE, ret |-> <<>>]
    ELSE IF "result" \notin msg.keys
    THEN \* msg['result'] raises KeyError (line 144)
         [raised |-> TRUE, ret |-> <<>>]
    ELSE FeatureRecord(msg,
             ExtractHops(msg.result, 1,
                         [raised |-> FALSE, seen_ips |-> {}, hops |-> <<>>]))

\* the state of the loop when the with block is entered (line 255)
Features ==
    [pc |-> "reading", nread |-> 0, msg |-> Msg({}, 0, 0, "", "", <<>>),
     raised |-> FALSE, ret |-> <<>>, written |-> <<>>]

\* extract_traceroute_features is not running
NoFeatures == [Features EXCEPT !.pc = "idle"]

(***************************************************************************)
(* compute_as_rank: the loop of main that reads the feature messages into  *)
(* the feature matrices (lines 109-115 and 133-154).  The messages are     *)
(* those of aggregate_traceroute_features.generate_messages: each has a    *)
(* peer, a dst and a dict of features.                                     *)
(*   as_rank : [pc, msgs, feature_values]; msgs are the messages read      *)
(***************************************************************************)
MaxRankMsgs == 3

AS_HOPS_FEATURE == "as_hops"
enabled_features == {AS_HOPS_FEATURE, "rtt"}

\* read_probe_as: the sorted list of probe ASes (line 109)
probe_as_list == <<"64500", "64501">>
num_as == Len(probe_as_list)

\* asn_idx (line 110); numpy indices start at 0
asn_idx(asn) == (CHOOSE i \in 1..num_as : probe_as_list[i] = asn) - 1
InAsnIdx(asn) == \E i \in 1..num_as : probe_as_list[i] = asn

\* np.zeros((num_as, num_as)) for every enabled feature (lines 114-115)
ZeroMatrices ==
    [feature \in enabled_features |->
        [p \in 0..(num_as - 1) |-> [d \in 0..(num_as - 1) |-> 0]]]

\* a feature message; features is a set of <<feature, value>>
FeatureMsg(peer, dst, features) ==
    [peer |-> peer, dst |-> dst, features |-> features]

HasFeature(msg, feature) == \E fv \in msg.features : fv[1] = feature
FeatureOf(msg, feature) == (CHOOSE fv \in msg.features : fv[1] = feature)[2]

\* msg_feature_value after lines 143-146
MsgFeatureValue(msg, feature) ==
    IF feature = AS_HOPS_FEATURE
    THEN FeatureOf(msg, feature) + 1
    ELSE FeatureOf(msg, feature)

\* SetBoth writing one side of the diagonal only
SetBoth_OneSide(matrix, p_idx, d_idx, value) ==
    [matrix EXCEPT ![p_idx][d_idx] = value]

\* lines 153-154
SetBoth(matrix, p_idx, d_idx, value) ==
    [matrix EXCEPT ![p_idx][d_idx] = value, ![d_idx][p_idx] = value]

\* lines 141-154 for one feature and its matrix
UpdateMatrix(matrix, feature, msg, p_idx, d_idx) ==
    IF ~HasFeature(msg, feature) THEN matrix
    ELSE IF \/ matrix[p_idx][d_idx] = 0
            \/ matrix[p_idx][d_idx] > MsgFeatureValue(msg, feature)
    THEN SetBoth(matrix, p_idx, d_idx, MsgFeatureValue(msg, feature))
    ELSE matrix

\* the body of the loop (lines 136-154)
ReadFeatures(feature_values, msg) ==
    IF ~InAsnIdx(msg.peer) \/ ~InAsnIdx(msg.dst) THEN feature_values
    ELSE [feature \in enabled_features |->
            UpdateMatrix(feature_values[feature], feature, msg,
                         asn_idx(msg.peer), asn_idx(msg.dst))]

\* the feature messages: pairs of probe ASes in both directions and a pair
\* with another AS; features enabled and not, values zero and not
FeatureMsgs ==
    { FeatureMsg(pd[1], pd[2], fs) :
        pd \in {<<"64500", "64501">>, <<"64501", "64500">>, <<"64500", "64999">>},
        fs \in {{}, {<<AS_HOPS_FEATURE, 0>>}, {<<AS_HOPS_FEATURE, 2>>},
                {<<"rtt", 0>>}, {<<"rtt", 3>>},
                {<<AS_HOPS_FEATURE, 1>>, <<"rtt", 5>>}, {<<"ip_hops", 1>>}} }

\* compute_as_rank when the reader is entered (line 133)
AsRank == [pc |-> "reading", msgs |-> <<>>, feature_values |-> ZeroMatrices]

\* compute_as_rank is not running
NoAsRank == [AsRank EXCEPT !.pc = "idle"]

(***************************************************************************)
(* The run: main's loop over reader.read() (lines 441-465).                *)
(***************************************************************************)
VARIABLES
    cfg,                 \* the arguments main passes to process_message
    stats,               \* the module-level stats dict
    probe_ip_map,        \* the module-level probe_ip_map dict
    seen_peer_prefixes,  \* main's dedup set
    written,             \* the records given to writer.write, in order
    pc,                  \* "reading", or "crashed" after an uncaught exception
    nread,               \* the number of records read so far
    last,                \* the last process_message call: its message and result
    hop_call,            \* one process_hop call: its arguments and result
    invocation,          \* the configuration file, environment and arguments
    exit_status,         \* the status of sys.exit, 0 while the process runs
    opened,              \* the readers and writers inside their with block
    updates_written,     \* the records written to the updates topic
    stats_written,       \* the records written to the stats topic
    rib_filter,          \* the state of filter_rib_topic's copy
    download,            \* the state of download.py's chunk loop
    fetch_call,          \* the state of one AtlasDownloader.fetch call
    features,            \* the state of extract_traceroute_features' loop
    as_rank,             \* the state of compute_as_rank's loop
    filter_call          \* a call of filter_msg

\* the variables of traceroute_to_bgp
mainVars == <<cfg, stats, probe_ip_map, seen_peer_prefixes, written, pc, nread,
              last, hop_call, invocation, exit_status, opened, updates_written,
              stats_written>>

vars == <<mainVars, rib_filter, download, fetch_call, features, as_rank, filter_call>>

NoMessage == Msg({}, 0, 0, "", "", <<>>)

NoCall == [msg |-> NoMessage, raised |-> FALSE, ret |-> <<>>, reached |-> "none",
           path |-> ASPath, hops_done |-> 0]

NoHopCall == [done |-> FALSE, hop |-> HopNoResult(0), path |-> ASPath,
              raised |-> FALSE, ret |-> FALSE, path_out |-> ASPath]

Init ==
    /\ rib_filter = NoRibCopy
    /\ download = NoDownload
    /\ fetch_call = NoFetch
    /\ features = NoFeatures
    /\ as_rank = NoAsRank
    /\ filter_call = NoFilterCall
    /\ cfg \in Configs
    /\ invocation \in RunInvocations
    /\ cfg = Arguments(invocation)
    /\ exit_status = 0
    /\ opened = {"reader", "ribs_writer"}
    /\ updates_written = <<>>
    /\ stats_written = <<>>
    /\ stats = stats0
    /\ probe_ip_map = <<>>
    /\ seen_peer_prefixes = {}
    /\ written = <<>>
    /\ pc = "reading"
    /\ nread = 0
    /\ last = NoCall
    /\ hop_call = NoHopCall

\* "if not data: continue" and writer.write (lines 459-465), or the exception
\* leaving main; r is the result of process_message
Deliver(msg, r) ==
    /\ stats' = r.stats
    /\ probe_ip_map' = r.probe_ip_map
    /\ seen_peer_prefixes' = r.seen
    /\ written' = IF ~r.raised /\ r.ret # <<>>
                  THEN written \o r.ret
                  ELSE written
    /\ pc' = IF r.raised THEN "crashed" ELSE "reading"
    /\ last' = [msg |-> msg, raised |-> r.raised, ret |-> r.ret,
                reached |-> r.reached, path |-> r.path,
                hops_done |-> r.hops_done]

\* one iteration of "for msg in reader.read()" (lines 450-465)
ReadMessage(msg) ==
    /\ UNCHANGED <<rib_filter, download, fetch_call, features, as_rank, filter_call>>
    /\ pc = "reading"
    /\ nread < MaxMsgs
    /\ Deliver(msg, process_message(msg, cfg, stats, probe_ip_map, seen_peer_prefixes))
    /\ nread' = nread + 1
    /\ opened' = IF pc' = "crashed"
                 THEN LeaveWith(opened, {"reader", "ribs_writer"}, TRUE)
                 ELSE opened
    /\ exit_status' = IF pc' = "crashed" THEN 1 ELSE exit_status
    /\ UNCHANGED <<cfg, hop_call, invocation, updates_written, stats_written>>

\* the fake entry of lines 472-482
FakeEntry(unified_timestamp) ==
    [rec |-> [time |-> unified_timestamp + 1],
     type |-> "A",
     time |-> unified_timestamp + 1,
     peer_address |-> "0.0.0.0",
     peer_asn |-> "0",
     fields |-> [prefix |-> "0.0.0.0/0"]]

\* WriteFake writing the entry twice
WriteFake_Twice(updates, unified_timestamp) ==
    updates \o <<[key |-> "None", data |-> FakeEntry(unified_timestamp),
                  timestamp |-> (unified_timestamp + 1) * 1000],
                 [key |-> "None", data |-> FakeEntry(unified_timestamp),
                  timestamp |-> (unified_timestamp + 1) * 1000]>>

\* update_writer.write(None, fake, (unified_timestamp + 1) * 1000) (line 483)
WriteFake(updates, unified_timestamp) ==
    Append(updates, [key |-> "None", data |-> FakeEntry(unified_timestamp),
                     timestamp |-> (unified_timestamp + 1) * 1000])

\* the entry of lines 489-497; msm_id_list and scopes are the two lists
StatsEntry(inv, args, st, msm_id_list, scopes) ==
    [start |-> parse_timestamp_argument(inv.start),
     stop |-> parse_timestamp_argument(inv.stop),
     msm_ids |-> msm_id_list,
     target_asn |-> IF args.has_target_asn THEN args.target_asn ELSE "None",
     stats |-> [st EXCEPT !.scopes = scopes]]

\* reader.read() is exhausted and the with block of reader and writer is left
\* (lines 449-465)
EndOfInput ==
    /\ UNCHANGED <<rib_filter, download, fetch_call, features, as_rank, filter_call>>
    /\ pc = "reading"
    /\ opened' = LeaveWith(opened, {"reader", "ribs_writer"}, FALSE)
    /\ pc' = "marker"
    /\ UNCHANGED <<cfg, stats, probe_ip_map, seen_peer_prefixes, written, nread,
                   last, hop_call, invocation, exit_status, updates_written,
                   stats_written>>

\* the fake entry that forces the dump (lines 467-483)
WriteMarker ==
    /\ UNCHANGED <<rib_filter, download, fetch_call, features, as_rank, filter_call>>
    /\ pc = "marker"
    /\ updates_written' = WriteFake(updates_written, cfg.unified_timestamp)
    /\ opened' = LeaveWith(EnterWith(opened, {"update_writer"}),
                           {"update_writer"}, FALSE)
    /\ pc' = "summary"
    /\ UNCHANGED <<cfg, stats, probe_ip_map, seen_peer_prefixes, written, nread,
                   last, hop_call, invocation, exit_status, stats_written>>

\* the stats entry (lines 484-498); stats['scopes'] becomes a list
WriteSummary ==
    /\ UNCHANGED <<rib_filter, download, fetch_call, features, as_rank, filter_call>>
    /\ pc = "summary"
    /\ \E msm_id_list \in Lists(cfg.msm_ids), scopes \in Lists(stats.scopes) :
          /\ stats' = [stats EXCEPT !.scopes = scopes]
          /\ stats_written' =
                Append(stats_written,
                       [key |-> "None",
                        data |-> StatsEntry(invocation, cfg, stats, msm_id_list, scopes),
                        timestamp |-> cfg.unified_timestamp * 1000])
    /\ opened' = LeaveWith(EnterWith(opened, {"stats_writer"}),
                           {"stats_writer"}, FALSE)
    /\ pc' = "done"
    /\ UNCHANGED <<cfg, probe_ip_map, seen_peer_prefixes, written, nread, last,
                   hop_call, invocation, exit_status, updates_written>>

\* 100 / n raises ZeroDivisionError
DivisionRaises(n) == n = 0

\* print_stats (lines 262-331): 'No values.' for an empty run, else the
\* three factors of lines 266-268 and the table; raised when a division
\* raises ZeroDivisionError
print_stats(st) ==
    IF st.total = 0
    THEN [raised |-> FALSE, no_values |-> TRUE]
    ELSE [raised |-> \/ DivisionRaises(st.total)
                     \/ DivisionRaises(st.accepted)
                     \/ DivisionRaises(st.used),
          no_values |-> FALSE]

\* print_stats() and the end of main (line 499), then sys.exit(0) (line 504)
PrintStats ==
    /\ UNCHANGED <<rib_filter, download, fetch_call, features, as_rank, filter_call>>
    /\ pc = "done"
    /\ pc' = IF print_stats(stats).raised THEN "crashed" ELSE "printed"
    /\ exit_status' = IF print_stats(stats).raised THEN 1 ELSE 0
    /\ UNCHANGED <<cfg, stats, probe_ip_map, seen_peer_prefixes, written, nread,
                   last, hop_call, invocation, opened, updates_written,
                   stats_written>>

Next ==
    \/ \E msg \in Messages : ReadMessage(msg)
    \/ EndOfInput
    \/ WriteMarker
    \/ WriteSummary
    \/ PrintStats

Spec == Init /\ [][Next]_vars

(***************************************************************************)
(* The startup of main, one step per stage (lines 371-448).                *)
(***************************************************************************)
NoArguments == Config(FALSE, FALSE, FALSE, FALSE)

InitStartup ==
    /\ rib_filter = NoRibCopy
    /\ download = NoDownload
    /\ fetch_call = NoFetch
    /\ features = NoFeatures
    /\ as_rank = NoAsRank
    /\ filter_call = NoFilterCall
    /\ invocation \in Invocations
    /\ cfg = NoArguments
    /\ exit_status = 0
    /\ opened = {}
    /\ updates_written = <<>>
    /\ stats_written = <<>>
    /\ stats = stats0
    /\ probe_ip_map = <<>>
    /\ seen_peer_prefixes = {}
    /\ written = <<>>
    /\ pc = "start"
    /\ nread = 0
    /\ last = NoCall
    /\ hop_call = NoHopCall

\* sys.exit(1), or an exception that leaves main
Exit(status) ==
    /\ pc' = "exited"
    /\ exit_status' = status

\* config = check_config(args.config); if not config.sections(): sys.exit(1)
\* (lines 371-373)
CheckConfig ==
    /\ UNCHANGED <<rib_filter, download, fetch_call, features, as_rank, filter_call>>
    /\ pc = "start"
    /\ IF check_config(invocation.config).keys = {}
       THEN Exit(1)
       ELSE pc' = "options" /\ UNCHANGED exit_status
    /\ UNCHANGED <<cfg, stats, probe_ip_map, seen_peer_prefixes, written, nread,
                   last, hop_call, invocation, opened, updates_written,
                   stats_written>>

\* the timestamps, filters, servers and the lookup (lines 375-439)
ReadOptions ==
    /\ UNCHANGED <<rib_filter, download, fetch_call, features, as_rank, filter_call>>
    /\ pc = "options"
    /\ IF OptionsFatal(invocation)
       THEN Exit(1) /\ UNCHANGED cfg
       ELSE /\ pc' = "open"
            /\ cfg' = Arguments(invocation)
            /\ UNCHANGED exit_status
    /\ UNCHANGED <<stats, probe_ip_map, seen_peer_prefixes, written, nread,
                   last, hop_call, invocation, opened, updates_written,
                   stats_written>>

\* seen_peer_prefixes = set(); reader = KafkaReader(...); writer =
\* KafkaWriter(...); with reader, writer:  (lines 441-449)
OpenTopics ==
    /\ UNCHANGED <<rib_filter, download, fetch_call, features, as_rank, filter_call>>
    /\ pc = "open"
    /\ seen_peer_prefixes' = {}
    /\ opened' = EnterWith(opened, {"reader", "ribs_writer"})
    /\ pc' = "reading"
    /\ UNCHANGED <<cfg, stats, probe_ip_map, written, nread, last, hop_call,
                   invocation, exit_status, updates_written, stats_written>>

NextStartup == CheckConfig \/ ReadOptions \/ OpenTopics

SpecStartup == InitStartup /\ [][NextStartup]_vars

(***************************************************************************)
(* The copy of filter_rib_topic's main (lines 232-279).                    *)
(***************************************************************************)
InitFilter ==
    /\ rib_filter \in {RibCopy(filters) : filters \in FilterSettings}
    /\ download = NoDownload
    /\ fetch_call = NoFetch
    /\ features = NoFeatures
    /\ as_rank = NoAsRank
    /\ filter_call = NoFilterCall
    /\ invocation = RunInvocation(Absent, Absent, Absent, Absent)
    /\ cfg = NoArguments
    /\ exit_status = 0
    /\ opened = {}
    /\ updates_written = <<>>
    /\ stats_written = <<>>
    /\ stats = stats0
    /\ probe_ip_map = <<>>
    /\ seen_peer_prefixes = {}
    /\ written = <<>>
    /\ pc = "filter_rib_topic"
    /\ nread = 0
    /\ last = NoCall
    /\ hop_call = NoHopCall

\* one iteration of "for msg in rib_reader.read()" (lines 234-249)
CopyRibMessage(msg) ==
    /\ rib_filter.pc = "ribs"
    /\ rib_filter.nread < MaxRibMsgs
    /\ rib_filter' = [WriteFiltered(rib_filter, filter_msg(msg, rib_filter.filters))
                        EXCEPT !.msg = msg]
    /\ UNCHANGED <<mainVars, download, fetch_call, features, as_rank, filter_call>>

\* rib_reader.read() is exhausted and the with block is left (line 232)
EndOfRibTopic ==
    /\ rib_filter.pc = "ribs"
    /\ rib_filter' = [rib_filter EXCEPT
                        !.pc = "updates",
                        !.opened = LeaveWith(@, {"rib_reader", "rib_writer"}, FALSE)]
    /\ UNCHANGED <<mainVars, download, fetch_call, features, as_rank, filter_call>>

\* the copy of the updates topic (lines 251-279)
CopyUpdates(msgs) ==
    /\ rib_filter.pc = "updates"
    /\ rib_filter' = [WriteUpdates(rib_filter, SortByTime(ReadUpdates(msgs, 1)), 1, -1)
                        EXCEPT
                          !.pc = "done",
                          !.opened =
                              LeaveWith(
                                EnterWith(
                                  LeaveWith(EnterWith(@, {"updates_reader"}),
                                            {"updates_reader"}, FALSE),
                                  {"updates_writer"}),
                                {"updates_writer"}, FALSE)]
    /\ UNCHANGED <<mainVars, download, fetch_call, features, as_rank, filter_call>>

NextFilter ==
    \/ \E msg \in RibMessages : CopyRibMessage(msg)
    \/ EndOfRibTopic
    \/ \E msgs \in UpdateTopics : CopyUpdates(msgs)

SpecFilter == InitFilter /\ [][NextFilter]_vars

(***************************************************************************)
(* filter_msg alone (lines 70-119), called with every message and every    *)
(* setting of the filters.                                                 *)
(***************************************************************************)
InitFilterMsg ==
    /\ rib_filter = NoRibCopy
    /\ download = NoDownload
    /\ fetch_call = NoFetch
    /\ features = NoFeatures
    /\ as_rank = NoAsRank
    /\ filter_call \in {FilterCall(msg, filters) :
                          msg \in CallMessages, filters \in CallFilters}
    /\ invocation = RunInvocation(Absent, Absent, Absent, Absent)
    /\ cfg = NoArguments
    /\ exit_status = 0
    /\ opened = {}
    /\ updates_written = <<>>
    /\ stats_written = <<>>
    /\ stats = stats0
    /\ probe_ip_map = <<>>
    /\ seen_peer_prefixes = {}
    /\ written = <<>>
    /\ pc = "filter_msg"
    /\ nread = 0
    /\ last = NoCall
    /\ hop_call = NoHopCall

\* the call returns (lines 78, 118 and 119)
FilterMsgReturns ==
    /\ filter_call.pc = "called"
    /\ filter_call' =
          [filter_call EXCEPT
             !.pc = "returned",
             !.result = filter_msg(filter_call.msg, filter_call.filters),
             !.msg_after = InputAfterCall(filter_call.msg,
                                          filter_msg(filter_call.msg,
                                                     filter_call.filters))]
    /\ UNCHANGED <<mainVars, rib_filter, download, fetch_call, features, as_rank>>

NextFilterMsg == FilterMsgReturns

SpecFilterMsg == InitFilterMsg /\ [][NextFilterMsg]_vars

(***************************************************************************)
(* The chunk loop of download.py's main (lines 142-159).                   *)
(***************************************************************************)
InitDownload ==
    /\ rib_filter = NoRibCopy
    /\ download \in Downloads
    /\ fetch_call = NoFetch
    /\ features = NoFeatures
    /\ as_rank = NoAsRank
    /\ filter_call = NoFilterCall
    /\ invocation = RunInvocation(Absent, Absent, Absent, Absent)
    /\ cfg = NoArguments
    /\ exit_status = 0
    /\ opened = {}
    /\ updates_written = <<>>
    /\ stats_written = <<>>
    /\ stats = stats0
    /\ probe_ip_map = <<>>
    /\ seen_peer_prefixes = {}
    /\ written = <<>>
    /\ pc = "download"
    /\ nread = 0
    /\ last = NoCall
    /\ hop_call = NoHopCall

\* one iteration of "while current_chunk_start < end_ts" (lines 144-158);
\* data is what fetch returned
DownloadChunk ==
    /\ download.pc = "chunks"
    /\ download.current_chunk_start < download.end_ts
    /\ \E data \in fetch(download.store, download.msm_ids,
                         download.current_chunk_start,
                         ChunkEnd(download.current_chunk_start,
                                  download.chunk_size, download.end_ts)) :
          download' = [download EXCEPT
                         !.current_chunk_start = @ + download.chunk_size,
                         !.chunks = @ + 1,
                         !.windows =
                             Append(@, <<download.current_chunk_start,
                                         ChunkEnd(download.current_chunk_start,
                                                  download.chunk_size,
                                                  download.end_ts)>>),
                         !.data = data,
                         !.written = WriteEntries(@, SortByTimestamp(data), 1)]
    /\ UNCHANGED <<mainVars, rib_filter, fetch_call, features, as_rank, filter_call>>

\* the loop ends and the with block of the writer is left (lines 142-159)
EndOfDownload ==
    /\ download.pc = "chunks"
    /\ download.current_chunk_start >= download.end_ts
    /\ download' = [download EXCEPT !.pc = "done", !.opened = {}]
    /\ UNCHANGED <<mainVars, rib_filter, fetch_call, features, as_rank, filter_call>>

NextDownload == DownloadChunk \/ EndOfDownload

SpecDownload == InitDownload /\ [][NextDownload]_vars

(***************************************************************************)
(* One call of AtlasDownloader.fetch, one step per round of its retry loop *)
(* (lines 42-81).                                                          *)
(*   fetch_call : [pc, msm_ids, retries, unfinished_msm_ids, requested,    *)
(*                 results, reported]                                      *)
(* requested is the list of ids the latest round sent a request for,       *)
(* reported the list of the final error message, <<>> if there is none.    *)
(***************************************************************************)
\* resp.json() of a request that succeeded: the results of the measurement
ResponseData(msm_id) ==
    IF msm_id = 1
    THEN <<[msm_id |-> 1, timestamp |-> 10], [msm_id |-> 1, timestamp |-> 11]>>
    ELSE <<[msm_id |-> msm_id, timestamp |-> 10]>>

\* NextUnfinished keeping every id of the round for the next one
NextUnfinished_KeepAll(completed, failed) == completed

\* unfinished_msm_ids after the loop over as_completed(queries) (lines
\* 67-76): the ids whose request failed, in the order the requests completed
NextUnfinished(completed, failed) ==
    SelectSeq(completed, LAMBDA m : m \in failed)

\* results after the loop over as_completed(queries): results.extend(data)
\* for every request that succeeded (line 77)
RECURSIVE ExtendResults(_, _, _, _)
ExtendResults(results, completed, failed, i) ==
    IF i > Len(completed) THEN results
    ELSE ExtendResults(IF completed[i] \in failed
                       THEN results
                       ELSE results \o ResponseData(completed[i]),
                       completed, failed, i + 1)

\* while unfinished_msm_ids and retries <= self.max_retries (line 57)
FetchContinues(call) ==
    call.unfinished_msm_ids # <<>> /\ call.retries <= max_retries

\* the state of fetch before its loop (lines 43-56)
FetchCall(msm_ids) ==
    [pc |-> "loop", msm_ids |-> msm_ids, retries |-> 0,
     unfinished_msm_ids |-> msm_ids, requested |-> <<>>, results |-> <<>>,
     reported |-> <<>>]

\* the lists of measurement ids fetch is called with
MsmIdLists == {<<>>, <<1>>, <<1, 2>>, <<2, 1>>}

InitFetch ==
    /\ rib_filter = NoRibCopy
    /\ download = NoDownload
    /\ fetch_call \in {FetchCall(msm_ids) : msm_ids \in MsmIdLists}
    /\ features = NoFeatures
    /\ as_rank = NoAsRank
    /\ filter_call = NoFilterCall
    /\ invocation = RunInvocation(Absent, Absent, Absent, Absent)
    /\ cfg = NoArguments
    /\ exit_status = 0
    /\ opened = {}
    /\ updates_written = <<>>
    /\ stats_written = <<>>
    /\ stats = stats0
    /\ probe_ip_map = <<>>
    /\ seen_peer_prefixes = {}
    /\ written = <<>>
    /\ pc = "fetch"
    /\ nread = 0
    /\ last = NoCall
    /\ hop_call = NoHopCall

\* one round of the loop (lines 58-77): a request for every unfinished id;
\* the requests complete in some order and those of the ids in failed raise
FetchRound ==
    /\ fetch_call.pc = "loop"
    /\ FetchContinues(fetch_call)
    /\ \E completed \in Lists({fetch_call.unfinished_msm_ids[i] :
                                  i \in 1..Len(fetch_call.unfinished_msm_ids)}),
          failed \in SUBSET {fetch_call.unfinished_msm_ids[i] :
                                  i \in 1..Len(fetch_call.unfinished_msm_ids)} :
          fetch_call' = [fetch_call EXCEPT
                           !.retries = @ + 1,
                           !.requested = fetch_call.unfinished_msm_ids,
                           !.unfinished_msm_ids = NextUnfinished(completed, failed),
                           !.results = ExtendResults(@, completed, failed, 1)]
    /\ UNCHANGED <<mainVars, rib_filter, download, features, as_rank, filter_call>>

\* the loop is left, the ids that never succeeded are reported and the
\* results returned (lines 78-81)
FetchReturn ==
    /\ fetch_call.pc = "loop"
    /\ ~FetchContinues(fetch_call)
    /\ fetch_call' = [fetch_call EXCEPT
                        !.pc = "returned",
                        !.reported = fetch_call.unfinished_msm_ids]
    /\ UNCHANGED <<mainVars, rib_filter, download, features, as_rank, filter_call>>

NextFetch == FetchRound \/ FetchReturn

\* every request completes, so a round that has started ends
SpecFetch == InitFetch /\ [][NextFetch]_vars /\ WF_vars(NextFetch)

(***************************************************************************)
(* The loop of extract_traceroute_features' main (lines 255-265).          *)
(***************************************************************************)
InitFeatures ==
    /\ rib_filter = NoRibCopy
    /\ download = NoDownload
    /\ fetch_call = NoFetch
    /\ features = Features
    /\ as_rank = NoAsRank
    /\ filter_call = NoFilterCall
    /\ invocation = RunInvocation(Absent, Absent, Absent, Absent)
    /\ cfg = NoArguments
    /\ exit_status = 0
    /\ opened = {}
    /\ updates_written = <<>>
    /\ stats_written = <<>>
    /\ stats = stats0
    /\ probe_ip_map = <<>>
    /\ seen_peer_prefixes = {}
    /\ written = <<>>
    /\ pc = "features"
    /\ nread = 0
    /\ last = NoCall
    /\ hop_call = NoHopCall

\* lines 257-265; r is the result of process_message
WriteFeatures(run, msg, r) ==
    [run EXCEPT
       !.pc = IF r.raised THEN "crashed" ELSE "reading",
       !.nread = @ + 1,
       !.msg = msg,
       !.raised = r.raised,
       !.ret = r.ret,
       !.written = IF r.raised \/ r.ret = <<>>
                   THEN @
                   ELSE Append(@, [key |-> ToBytes(r.ret[1].prb_id),
                                   data |-> r.ret[1]])]

\* one iteration of "for msg in msg_generator(...)" (lines 256-265)
ReadFeatureMessage(msg) ==
    /\ features.pc = "reading"
    /\ features.nread < MaxFeatureMsgs
    /\ features' = WriteFeatures(features, msg, extract_process_message(msg))
    /\ UNCHANGED <<mainVars, rib_filter, download, fetch_call, as_rank, filter_call>>

\* the generator is exhausted and the with block is left (line 255)
EndOfFeatures ==
    /\ features.pc = "reading"
    /\ features' = [features EXCEPT !.pc = "done"]
    /\ UNCHANGED <<mainVars, rib_filter, download, fetch_call, as_rank, filter_call>>

NextFeatures ==
    \/ \E msg \in Messages : ReadFeatureMessage(msg)
    \/ EndOfFeatures

SpecFeatures == InitFeatures /\ [][NextFeatures]_vars

(***************************************************************************)
(* The loop of compute_as_rank's main over reader.read() (lines 133-154).  *)
(***************************************************************************)
InitAsRank ==
    /\ rib_filter = NoRibCopy
    /\ download = NoDownload
    /\ fetch_call = NoFetch
    /\ features = NoFeatures
    /\ as_rank = AsRank
    /\ filter_call = NoFilterCall
    /\ invocation = RunInvocation(Absent, Absent, Absent, Absent)
    /\ cfg = NoArguments
    /\ exit_status = 0
    /\ opened = {}
    /\ updates_written = <<>>
    /\ stats_written = <<>>
    /\ stats = stats0
    /\ probe_ip_map = <<>>
    /\ seen_peer_prefixes = {}
    /\ written = <<>>
    /\ pc = "as_rank"
    /\ nread = 0
    /\ last = NoCall
    /\ hop_call = NoHopCall

\* one iteration of "for msg in reader.read()" (lines 134-154)
ReadFeatureValues(msg) ==
    /\ as_rank.pc = "reading"
    /\ Len(as_rank.msgs) < MaxRankMsgs
    /\ as_rank' = [as_rank EXCEPT
                     !.msgs = Append(@, msg),
                     !.feature_values = ReadFeatures(@, msg)]
    /\ UNCHANGED <<mainVars, rib_filter, download, fetch_call, features, filter_call>>

\* reader.read() is exhausted and the with block is left (line 133)
EndOfFeatureValues ==
    /\ as_rank.pc = "reading"
    /\ as_rank' = [as_rank EXCEPT !.pc = "read"]
    /\ UNCHANGED <<mainVars, rib_filter, download, fetch_call, features, filter_call>>

NextAsRank ==
    \/ \E msg \in FeatureMsgs : ReadFeatureValues(msg)
    \/ EndOfFeatureValues

SpecAsRank == InitAsRank /\ [][NextAsRank]_vars

(***************************************************************************)
(* The runs from their start to the end of the process: traceroute_to_bgp  *)
(* from check_config to sys.exit, filter_rib_topic from its first with     *)
(* block on, both with writers whose write may raise.                      *)
(***************************************************************************)
\* a complete invocation, one without its configuration and one with an
\* unparsable start time
ExitInvocations ==
    { RunInvocation(Absent, Absent, Absent, Absent),
      Invocation(EmptyConfig, "", "500", FALSE, "", PickledProbes, TRUE),
      Invocation(ConfigFile(RequiredOptions, "86400000", <<TRUE, "kafka:9092">>,
                            Absent, Absent, Absent, Absent),
                 "", "soon", FALSE, "", PickledProbes, TRUE) }

InitExit ==
    /\ download = NoDownload
    /\ fetch_call = NoFetch
    /\ features = NoFeatures
    /\ as_rank = NoAsRank
    /\ filter_call = NoFilterCall
    /\ cfg = NoArguments
    /\ exit_status = 0
    /\ opened = {}
    /\ updates_written = <<>>
    /\ stats_written = <<>>
    /\ stats = stats0
    /\ probe_ip_map = <<>>
    /\ seen_peer_prefixes = {}
    /\ written = <<>>
    /\ nread = 0
    /\ last = NoCall
    /\ hop_call = NoHopCall
    /\ \/ /\ pc = "start"
          /\ invocation \in ExitInvocations
          /\ rib_filter = NoRibCopy
       \/ /\ pc = "filter_rib_topic"
          /\ invocation = RunInvocation(Absent, Absent, Absent, Absent)
          /\ rib_filter \in {RibCopy(filters) : filters \in FilterSettings}

\* writer.write (line 465) raises: the exception leaves the with block and
\* main; r is the result of process_message
DeliverFails(msg, r) ==
    /\ ~r.raised
    /\ r.ret # <<>>
    /\ stats' = r.stats
    /\ probe_ip_map' = r.probe_ip_map
    /\ seen_peer_prefixes' = r.seen
    /\ last' = [msg |-> msg, raised |-> r.raised, ret |-> r.ret,
                reached |-> r.reached, path |-> r.path,
                hops_done |-> r.hops_done]

\* one iteration of "for msg in reader.read()" whose writer.write raises
\* (lines 450-465)
WriterFails(msg) ==
    /\ UNCHANGED <<rib_filter, download, fetch_call, features, as_rank, filter_call>>
    /\ pc = "reading"
    /\ nread < MaxMsgs
    /\ DeliverFails(msg, process_message(msg, cfg, stats, probe_ip_map,
                                         seen_peer_prefixes))
    /\ nread' = nread + 1
    /\ pc' = "crashed"
    /\ opened' = LeaveWith(opened, {"reader", "ribs_writer"}, TRUE)
    /\ exit_status' = 1
    /\ UNCHANGED <<cfg, written, hop_call, invocation, updates_written,
                   stats_written>>

\* update_writer.write raises inside its with block (lines 471-483)
MarkerWriterFails ==
    /\ UNCHANGED <<rib_filter, download, fetch_call, features, as_rank, filter_call>>
    /\ pc = "marker"
    /\ opened' = LeaveWith(EnterWith(opened, {"update_writer"}),
                           {"update_writer"}, TRUE)
    /\ pc' = "crashed"
    /\ exit_status' = 1
    /\ UNCHANGED <<cfg, stats, probe_ip_map, seen_peer_prefixes, written, nread,
                   last, hop_call, invocation, updates_written, stats_written>>

\* stats_writer.write raises inside its with block (lines 487-498)
SummaryWriterFails ==
    /\ UNCHANGED <<rib_filter, download, fetch_call, features, as_rank, filter_call>>
    /\ pc = "summary"
    /\ \E scopes \in Lists(stats.scopes) : stats' = [stats EXCEPT !.scopes = scopes]
    /\ opened' = LeaveWith(EnterWith(opened, {"stats_writer"}),
                           {"stats_writer"}, TRUE)
    /\ pc' = "crashed"
    /\ exit_status' = 1
    /\ UNCHANGED <<cfg, probe_ip_map, seen_peer_prefixes, written, nread, last,
                   hop_call, invocation, updates_written, stats_written>>

\* lines 240-248 when rib_writer.write raises; f is the result of filter_msg
WriteFilteredFails(copy, f) ==
    [copy EXCEPT
       !.nread = @ + 1,
       !.warnings = LogOutOfOrder(@, copy.last_ts, f.timestamp),
       !.pc = "crashed",
       !.opened = LeaveWith(@, {"rib_reader", "rib_writer"}, TRUE)]

\* one iteration of "for msg in rib_reader.read()" whose rib_writer.write
\* raises (lines 234-248)
RibWriterFails(msg) ==
    /\ rib_filter.pc = "ribs"
    /\ rib_filter.nread < MaxRibMsgs
    /\ filter_msg(msg, rib_filter.filters).ret # <<>>
    /\ rib_filter' = [WriteFilteredFails(rib_filter,
                                         filter_msg(msg, rib_filter.filters))
                        EXCEPT !.msg = msg]
    /\ UNCHANGED <<mainVars, download, fetch_call, features, as_rank, filter_call>>

\* the copy of the updates topic whose first updates_writer.write raises
\* (lines 264-278)
UpdatesWriterFails(msgs) ==
    /\ rib_filter.pc = "updates"
    /\ ReadUpdates(msgs, 1) # <<>>
    /\ rib_filter' =
          [rib_filter EXCEPT
             !.pc = "crashed",
             !.opened =
                 LeaveWith(
                   EnterWith(
                     LeaveWith(EnterWith(@, {"updates_reader"}),
                               {"updates_reader"}, FALSE),
                     {"updates_writer"}),
                   {"updates_writer"}, TRUE)]
    /\ UNCHANGED <<mainVars, download, fetch_call, features, as_rank, filter_call>>

NextExit ==
    \/ CheckConfig
    \/ ReadOptions
    \/ OpenTopics
    \/ \E msg \in Messages : ReadMessage(msg)
    \/ \E msg \in Messages : WriterFails(msg)
    \/ EndOfInput
    \/ WriteMarker
    \/ MarkerWriterFails
    \/ WriteSummary
    \/ SummaryWriterFails
    \/ PrintStats
    \/ \E msg \in RibMessages : CopyRibMessage(msg)
    \/ \E msg \in RibMessages : RibWriterFails(msg)
    \/ EndOfRibTopic
    \/ \E msgs \in UpdateTopics : CopyUpdates(msgs)
    \/ \E msgs \in UpdateTopics : UpdatesWriterFails(msgs)

SpecExit == InitExit /\ [][NextExit]_vars

(***************************************************************************)
(* process_hop on its own: every hop over the replies below, applied to    *)
(* an empty path and to a path that already holds a hop.                   *)
(***************************************************************************)
Replies ==
    { Reply(Transit1), Reply(Transit2), Reply(IxpAddr),
      ReplyTimeout, ReplyNoFrom, ReplyFailed,
      ReplyErr(Transit1, ErrH), ReplyErr(Transit2, ErrN), ReplyErr(Transit2, Err5) }

ReplyLists == UNION { [1..n -> Replies] : n \in 0..MaxReplies }

HopInputs ==
    { [keys |-> k \cup {"result"}, hop |-> IF "hop" \in k THEN ttl ELSE 0,
       result |-> r] :
        k \in SUBSET {"error", "hop"}, ttl \in {1, 255}, r \in ReplyLists }
    \cup
    { [keys |-> k, hop |-> IF "hop" \in k THEN ttl ELSE 0, result |-> <<>>] :
        k \in SUBSET {"error", "hop"}, ttl \in {1, 255} }

PathsBefore ==
    LET p == set_start_end_asn(ASPath, "64500", "64501")
    IN {p, append(p, TokAs(ip2asn(Transit1)), Transit1, FALSE)}

InitHop ==
    /\ rib_filter = NoRibCopy
    /\ download = NoDownload
    /\ fetch_call = NoFetch
    /\ features = NoFeatures
    /\ as_rank = NoAsRank
    /\ filter_call = NoFilterCall
    /\ cfg = Config(FALSE, FALSE, FALSE, FALSE)
    /\ invocation = RunInvocation(Absent, Absent, Absent, Absent)
    /\ exit_status = 0
    /\ opened = {"reader", "ribs_writer"}
    /\ updates_written = <<>>
    /\ stats_written = <<>>
    /\ stats = stats0
    /\ probe_ip_map = <<>>
    /\ seen_peer_prefixes = {}
    /\ written = <<>>
    /\ pc = "hop"
    /\ nread = 0
    /\ last = NoCall
    /\ hop_call \in { [NoHopCall EXCEPT !.hop = h, !.path = p] :
                        h \in HopInputs, p \in PathsBefore }

\* the result r of the call is kept
ReturnFromHop(r) ==
    /\ stats' = r.stats
    /\ hop_call' = [hop_call EXCEPT !.done = TRUE, !.raised = r.raised,
                                    !.ret = r.ret, !.path_out = r.path]

\* process_hop(msg, hop, lookup, path) applied to the drawn hop and path
CallProcessHop ==
    /\ UNCHANGED <<rib_filter, download, fetch_call, features, as_rank, filter_call>>
    /\ pc = "hop"
    /\ ~hop_call.done
    /\ ReturnFromHop(process_hop(stats, hop_call.hop, hop_call.path))
    /\ UNCHANGED <<cfg, probe_ip_map, seen_peer_prefixes, written, pc, nread, last,
                   invocation, exit_status, opened, updates_written, stats_written>>

NextHop == CallProcessHop

SpecHop == InitHop /\ [][NextHop]_vars

(***************************************************************************)
(* Notions shared by the properties below.                                 *)
(***************************************************************************)
\* a step of the run that processed one record
ReadStep == nread' = nread + 1

\* the (source address, destination prefix) key of a message
KeyOf(msg) == <<msg.from, ip2prefix(get_dst_addr(msg))>>

\* the keys of the records emitted so far
EmittedKeys ==
    {<<written[i].peer_address, written[i].fields.prefix>> : i \in 1..Len(written)}

\* the message is Filtered by an allow-list or by the target ASN
IsFiltered(msg) ==
    \/ Excluded(msg, cfg)
    \/ /\ get_dst_addr(msg) # ""
       /\ ip2asn(get_dst_addr(msg)) # "0"
       /\ cfg.has_target_asn
       /\ ip2asn(get_dst_addr(msg)) # cfg.target_asn

\* the message gets as far as the duplicate check: no allow-list stops it
\* and its addresses resolve
ResolvesKey(msg) ==
    /\ ~FilterRaises(msg, cfg)
    /\ ~IsFiltered(msg)
    /\ get_dst_addr(msg) # ""
    /\ ip2asn(get_dst_addr(msg)) # "0"
    /\ ip2prefix(get_dst_addr(msg)) # ""
    /\ "from" \in msg.keys
    /\ msg.from # ""
    /\ ip2asn(msg.from) # "0"

RejectionCounters ==
    {"no_dst_addr", "no_dst_asn", "no_prefix", "no_from", "no_peer_asn",
     "duplicate", "dnf", "empty_path", "single_as"}

Counters == DOMAIN stats0 \ {"scopes"}

(***************************************************************************)
(* C1.  With include_duplicates = false at most one OutputRecord is        *)
(* emitted per (source address, destination prefix) key: the keys of the   *)
(* emitted records are pairwise different, and a message whose key is the  *)
(* key of a record emitted earlier yields the empty result and nothing is  *)
(* written for it.                                                         *)
(***************************************************************************)
C1_OneRecordPerKey ==
    /\ [](~cfg.include_duplicates =>
            \A i, j \in 1..Len(written) :
                (<<written[i].peer_address, written[i].fields.prefix>>
                   = <<written[j].peer_address, written[j].fields.prefix>>) => i = j)
    /\ [][(ReadStep /\ ~cfg.include_duplicates /\ KeyOf(last'.msg) \in EmittedKeys)
            => (last'.ret = <<>> /\ written' = written)]_vars

\* a message with the key of an emitted record was read and dropped
C1_Witness ==
    /\ ~cfg.include_duplicates
    /\ Len(written) = 1
    /\ nread >= 2
    /\ KeyOf(last.msg) \in EmittedKeys
    /\ ResolvesKey(last.msg)
    /\ last.ret = <<>>

FailedChecks(msg) ==
    LET dst == get_dst_addr(msg) IN
    <<dst = "",
      ip2asn(dst) = "0",
      ip2prefix(dst) = "",
      "from" \notin msg.keys \/ msg.from = "",
      "from" \notin msg.keys \/ ip2asn(msg.from) = "0",
      KeyOf(msg) \in seen_peer_prefixes /\ ~cfg.include_duplicates>>

CheckCounters ==
    <<"no_dst_addr", "no_dst_asn", "no_prefix", "no_from", "no_peer_asn", "duplicate">>

C3_FirstFailingCheck ==
    [][\A k \in 1..Len(CheckCounters) :
        (/\ ReadStep
         /\ ~FilterRaises(last'.msg, cfg)
         /\ ~IsFiltered(last'.msg)
         /\ FailedChecks(last'.msg)[k]
         /\ \A j \in 1..(k - 1) : ~FailedChecks(last'.msg)[j])
        => /\ stats' = [stats EXCEPT !.total = @ + 1, ![CheckCounters[k]] = @ + 1]
           /\ last'.ret = <<>>
           /\ ~last'.raised
           /\ written' = written
           /\ seen_peer_prefixes' = seen_peer_prefixes
           /\ probe_ip_map' = probe_ip_map]_vars

\* a message failing two checks at once was counted for the earlier one only
C3_Witness ==
    /\ last.msg.dst_addr = NoPrefixAddr
    /\ "from" \notin last.msg.keys
    /\ ~IsFiltered(last.msg)
    /\ stats.no_prefix = 1
    /\ stats.no_from = 0
    /\ stats.total = 1

(***************************************************************************)
(* C4.  A hop classified unreachable (send-failure marker on the hop,      *)
(* failure marker on one of its replies, no address collected, or missing  *)
(* hop field) stops the fold of its message at that hop: process_hop is    *)
(* called for no later hop, nothing is appended for that hop or a later    *)
(* one, the reducer does not run and the message produces no output.       *)
(***************************************************************************)
\* the reply is skipped as an error reply of an address already in the path
Suppressed(reply, seen) ==
    "err" \in reply.keys /\ "from" \in reply.keys /\ reply.from \in seen

Unreachable(hop, seen) ==
    \/ "error" \in hop.keys
    \/ /\ "result" \in hop.keys
       /\ \/ \E i \in 1..Len(hop.result) : "error" \in hop.result[i].keys
          \/ \A i \in 1..Len(hop.result) : Suppressed(hop.result[i], seen)
          \/ "hop" \notin hop.keys

\* the addresses of the replies of a hop that are not skipped
RealAddresses(hop, seen) ==
    {hop.result[i].from : i \in
       {j \in 1..Len(hop.result) :
          /\ ~Suppressed(hop.result[j], seen)
          /\ "x" \notin hop.result[j].keys
          /\ "from" \in hop.result[j].keys}}

\* the addresses in the path after the first n hops when none is unreachable
RECURSIVE SeenBefore(_, _)
SeenBefore(hops, n) ==
    IF n = 0 THEN {}
    ELSE LET seen == SeenBefore(hops, n - 1)
         IN IF hops[n].hop = 255 THEN seen
            ELSE seen \cup RealAddresses(hops[n], seen)

\* the number of raw positions a reachable hop appends
PositionsOf(hop, seen) ==
    LET real == RealAddresses(hop, seen)
    IN IF hop.hop # 255 /\ Cardinality(real) = 1 /\ \E a \in real : ip2ixpid(a) # 0
       THEN 4 ELSE 1

\* the number of raw positions of the first n hops when none is unreachable
RECURSIVE PositionsBefore(_, _)
PositionsBefore(hops, n) ==
    IF n = 0 THEN 0
    ELSE PositionsBefore(hops, n - 1) + PositionsOf(hops[n], SeenBefore(hops, n - 1))

ReducerCounters ==
    {"empty_path", "single_as", "start_as_missing", "end_as_missing",
     "start_as_in_path", "end_as_in_path", "as_set", "used"}

C4_FoldStopsAtUnreachableHop ==
    [][\A k \in 1..Len(last'.msg.result) :
        (/\ ReadStep
         /\ last'.reached \in {"fold", "reduce"}
         /\ Unreachable(last'.msg.result[k], SeenBefore(last'.msg.result, k - 1))
         /\ \A j \in 1..(k - 1) :
               /\ "result" \in last'.msg.result[j].keys
               /\ ~Unreachable(last'.msg.result[j], SeenBefore(last'.msg.result, j - 1)))
        => /\ last'.hops_done = k
           /\ Len(last'.path.as_path) = PositionsBefore(last'.msg.result, k - 1)
           /\ Len(last'.path.ip_path) = PositionsBefore(last'.msg.result, k - 1)
           /\ \A c \in ReducerCounters : stats'[c] = stats[c]
           /\ last'.ret = <<>>
           /\ written' = written]_vars

\* the fold stopped at the second of three hops
C4_Witness ==
    /\ Len(last.msg.result) = 3
    /\ Unreachable(last.msg.result[2], SeenBefore(last.msg.result, 1))
    /\ ~Unreachable(last.msg.result[1], {})
    /\ last.reached = "fold"
    /\ last.hops_done = 2
    /\ Len(last.path.as_path) = 1
    /\ last.ret = <<>>

(***************************************************************************)
(* Messages that get past the duplicate check.                             *)
(***************************************************************************)
\* evaluated in the state before the message is read
PassesDuplicateCheck(msg) ==
    /\ ResolvesKey(msg)
    /\ ~(KeyOf(msg) \in seen_peer_prefixes /\ ~cfg.include_duplicates)

\* the hops of the message are folded
ReachesFold(msg) ==
    PassesDuplicateCheck(msg) /\ {"prb_id", "result"} \subseteq msg.keys

\* some hop of the traceroute is classified unreachable
HasUnreachableHop(hops) ==
    \E k \in 1..Len(hops) : Unreachable(hops[k], SeenBefore(hops, k - 1))

\* every hop of the traceroute is processed and none is unreachable
AllHopsReachable(hops) ==
    \A k \in 1..Len(hops) :
        "result" \in hops[k].keys /\ ~Unreachable(hops[k], SeenBefore(hops, k - 1))

HasHop255(hops) ==
    \E k \in 1..Len(hops) : "hop" \in hops[k].keys /\ hops[k].hop = 255

C7_Hop255AlwaysTimeout ==
    (/\ hop_call.done
     /\ {"hop", "result"} \subseteq hop_call.hop.keys
     /\ "error" \notin hop_call.hop.keys
     /\ hop_call.hop.hop = 255)
    => /\ ~hop_call.raised
       /\ ~hop_call.ret
       /\ hop_call.path_out.as_path = Append(hop_call.path.as_path, Single(TokTimeout))
       /\ hop_call.path_out.ip_path = Append(hop_call.path.ip_path, Single(Star))
       /\ hop_call.path_out.too_many_hops

(***************************************************************************)
(* C8.  When every hop of a message is folded and one of them has TTL 255, *)
(* the path has has_too_many_hops() true.  too_many_hops is incremented by *)
(* one for a message that emits a record and has a TTL-255 hop, and is     *)
(* left alone by every other message.                                      *)
(***************************************************************************)
C8_TooManyHopsCounted ==
    [][ReadStep
       => /\ (/\ ReachesFold(last'.msg)
              /\ AllHopsReachable(last'.msg.result)
              /\ HasHop255(last'.msg.result))
             => has_too_many_hops(last'.path)
          /\ stats'.too_many_hops = stats.too_many_hops
                + (IF last'.ret # <<>> /\ HasHop255(last'.msg.result)
                   THEN 1 ELSE 0)]_vars

\* a record was emitted for a traceroute with a TTL-255 hop in the middle
C8_Witness ==
    /\ last.ret # <<>>
    /\ Len(last.msg.result) = 3
    /\ last.msg.result[2].hop = 255
    /\ has_too_many_hops(last.path)
    /\ stats.too_many_hops = 1
    /\ stats.used = 1

(***************************************************************************)
(* C9 as claimed.  accepted and used are incremented exactly at the        *)
(* Accepted transition: each equals the number of OutputRecords emitted,   *)
(* and neither is incremented for a message that ends in a rejection.      *)
(***************************************************************************)
C9_AcceptedAndUsedCountRecords ==
    /\ [](pc = "reading" =>
            (stats.accepted = Len(written) /\ stats.used = Len(written)))
    /\ [][(/\ ReadStep
           /\ ~last'.raised
           /\ \E c \in RejectionCounters : stats'[c] = stats[c] + 1)
          => (stats'.accepted = stats.accepted /\ stats'.used = stats.used)]_vars

(***************************************************************************)
(* C9 amended.  used is incremented exactly when an OutputRecord is        *)
(* emitted, so it equals the number of records emitted and is not          *)
(* incremented for a rejected message.  accepted is incremented earlier,   *)
(* when a message with a probe id has passed the duplicate check: also for *)
(* a message that is then rejected as unreachable, empty or single-AS      *)
(* path, never for one rejected by a precondition; so accepted >= used.    *)
(***************************************************************************)
C9_UsedCountsRecords ==
    /\ [](stats.used = Len(written) /\ stats.accepted >= stats.used)
    /\ [][ReadStep
          => /\ stats'.used = stats.used + (IF last'.ret # <<>> THEN 1 ELSE 0)
             /\ stats'.accepted = stats.accepted
                   + (IF PassesDuplicateCheck(last'.msg) /\ "prb_id" \in last'.msg.keys
                      THEN 1 ELSE 0)]_vars

\* one record emitted, one message rejected at the path level
C9_Witness ==
    /\ stats.accepted = 2
    /\ stats.used = 1
    /\ Len(written) = 1
    /\ stats.dnf = 1
    /\ last.ret = <<>>

(***************************************************************************)
(* C10 as claimed.  No exception crosses the per-record boundary: every    *)
(* call of process_message returns, also for a record that lacks a         *)
(* required field, and the run goes on with the next record.               *)
(***************************************************************************)
C10_NoExceptionLeavesProcessMessage ==
    ~last.raised /\ pc # "crashed"


(***************************************************************************)
(* C11.  A message excluded by the measurement-id or the probe-id          *)
(* allow-list is Filtered and not counted: process_message returns the     *)
(* empty result and every counter (total included), the scope set, the     *)
(* dedup set and the probe-IP map stay as they are; nothing is written.    *)
(***************************************************************************)
\* the message has both ids and one of them is not in its configured list
NotAllowed(msg) ==
    /\ {"msm_id", "prb_id"} \subseteq msg.keys
    /\ \/ cfg.has_msm_ids /\ msg.msm_id \notin cfg.msm_ids
       \/ cfg.has_probe_ids /\ ~InProbeIds(msg.prb_id, cfg.probe_ids)

C11_AllowListFilteredNotCounted ==
    [][(ReadStep /\ NotAllowed(last'.msg))
       => /\ last'.ret = <<>>
          /\ ~last'.raised
          /\ stats' = stats
          /\ seen_peer_prefixes' = seen_peer_prefixes
          /\ probe_ip_map' = probe_ip_map
          /\ written' = written]_vars

\* after a counted and emitted message, a message of another probe was
\* filtered by the probe-id list
C11_Witness ==
    /\ cfg.has_probe_ids
    /\ nread = 2
    /\ last.msg.keys = AllKeys
    /\ ~InProbeIds(last.msg.prb_id, cfg.probe_ids)
    /\ last.reached = "filter"
    /\ last.ret = <<>>
    /\ stats.total = 1
    /\ stats.used = 1
    /\ DOMAIN probe_ip_map = {1}

(***************************************************************************)
(* C12 as claimed.  A message whose destination ASN differs from the       *)
(* configured target ASN is silently Filtered: it produces no output and   *)
(* changes no counter.                                                     *)
(***************************************************************************)
\* the message passes the allow-lists, its destination resolves to an ASN
\* and that ASN is not the configured target ASN
TargetMismatch(msg) ==
    /\ {"msm_id", "prb_id"} \subseteq msg.keys
    /\ ~NotAllowed(msg)
    /\ get_dst_addr(msg) # ""
    /\ ip2asn(get_dst_addr(msg)) # "0"
    /\ cfg.has_target_asn
    /\ ip2asn(get_dst_addr(msg)) # cfg.target_asn

C12_TargetFilterChangesNoCounter ==
    [][(ReadStep /\ TargetMismatch(last'.msg))
       => /\ last'.ret = <<>>
          /\ written' = written
          /\ \A c \in Counters : stats'[c] = stats[c]]_vars

(***************************************************************************)
(* C13.  For every message that passes the duplicate check, changed_ip is  *)
(* incremented by one iff the probe-IP map already holds an address for    *)
(* the probe id of the message that differs from its source address;       *)
(* afterwards the map holds the source address for that probe id and its   *)
(* other entries are as before.  A changed address alone never rejects the *)
(* message: its result is the result it has with an empty probe-IP map.    *)
(***************************************************************************)
C13_ChangedIpCountedNotRejected ==
    [][(/\ ReadStep
        /\ PassesDuplicateCheck(last'.msg)
        /\ "prb_id" \in last'.msg.keys)
       => LET msg == last'.msg
              churn == /\ msg.prb_id \in DOMAIN probe_ip_map
                       /\ probe_ip_map[msg.prb_id] # msg.from
          IN /\ stats'.changed_ip = stats.changed_ip + (IF churn THEN 1 ELSE 0)
             /\ DOMAIN probe_ip_map' = DOMAIN probe_ip_map \cup {msg.prb_id}
             /\ probe_ip_map'[msg.prb_id] = msg.from
             /\ \A p \in DOMAIN probe_ip_map \ {msg.prb_id} :
                   probe_ip_map'[p] = probe_ip_map[p]
             /\ last'.ret =
                   process_message(msg, cfg, stats, <<>>, seen_peer_prefixes).ret]_vars

\* a probe changed its address between two messages and both were emitted
C13_Witness ==
    /\ stats.changed_ip = 1
    /\ Len(written) = 2
    /\ written[1].prb_id = written[2].prb_id
    /\ written[1].peer_address # written[2].peer_address
    /\ last.ret # <<>>
    /\ probe_ip_map[last.msg.prb_id] = last.msg.from

(***************************************************************************)
(* One process_hop call on a hop that has a TTL other than 255, a reply    *)
(* list and no failure marker on the hop or on a reply.                    *)
(***************************************************************************)
OrdinaryHopCall ==
    /\ hop_call.done
    /\ hop_call.hop.keys = {"hop", "result"}
    /\ hop_call.hop.hop # 255
    /\ \A i \in 1..Len(hop_call.hop.result) : "error" \notin hop_call.hop.result[i].keys

\* the reply is a timeout: it has no source address
TimedOut(reply) ==
    /\ "error" \notin reply.keys
    /\ "from" \notin reply.keys

\* the usable source addresses of the hop of the call
UsableAddresses == RealAddresses(hop_call.hop, hop_call.path.seen)

\* the raw positions the call appended
Appended(entries_out, entries_in) ==
    SubSeq(entries_out, Len(entries_in) + 1, Len(entries_out))

(***************************************************************************)
(* C14.  A hop (TTL other than 255) whose replies are all timeouts yields  *)
(* exactly one raw entry as|0 with IP *, however many replies it has, and  *)
(* adds nothing to the length of the reduced path.                         *)
(***************************************************************************)
C14_AllTimeoutsOnePlaceholder ==
    (/\ OrdinaryHopCall
     /\ Len(hop_call.hop.result) >= 1
     /\ \A i \in 1..Len(hop_call.hop.result) : TimedOut(hop_call.hop.result[i]))
    => /\ ~hop_call.raised
       /\ ~hop_call.ret
       /\ Appended(hop_call.path_out.as_path, hop_call.path.as_path)
             = <<Single(TokTimeout)>>
       /\ Appended(hop_call.path_out.ip_path, hop_call.path.ip_path)
             = <<Single(Star)>>
       /\ hop_call.path_out.as_path
             = hop_call.path.as_path \o <<Single(TokTimeout)>>
       /\ hop_call.path_out.ixp_indexes = hop_call.path.ixp_indexes
       /\ ~hop_call.path_out.too_many_hops
       /\ Len(ReducedAsPath(hop_call.path_out)) = Len(ReducedAsPath(hop_call.path))

\* three timed-out replies gave one placeholder after the hop already in the path
C14_Witness ==
    /\ OrdinaryHopCall
    /\ Len(hop_call.hop.result) = 3
    /\ \A i \in 1..3 : "x" \in hop_call.hop.result[i].keys
    /\ Len(hop_call.path.as_path) = 1
    /\ Len(hop_call.path_out.as_path) = 2
    /\ hop_call.path_out.as_path[2] = Single(TokTimeout)
    /\ Len(ReducedAsPath(hop_call.path_out)) = 1

(***************************************************************************)
(* C15.  A hop with k >= 2 distinct usable source addresses is appended as *)
(* exactly one path position, an AS set, whose members appear in           *)
(* lexicographic address order; for two distinct non-IXP addresses the     *)
(* AS set has exactly two tokens, the ASes of the two addresses in that    *)
(* order.                                                                  *)
(***************************************************************************)
C15_AmbiguousHopOneSortedSet ==
    (OrdinaryHopCall /\ Cardinality(UsableAddresses) >= 2)
    => LET as_new == Appended(hop_call.path_out.as_path, hop_call.path.as_path)
           ip_new == Appended(hop_call.path_out.ip_path, hop_call.path.ip_path)
       IN /\ ~hop_call.raised
          /\ ~hop_call.ret
          /\ Len(as_new) = 1
          /\ Len(ip_new) = 1
          /\ as_new[1].set
          /\ ip_new[1].set
          /\ Len(as_new[1].toks) = Len(ip_new[1].toks)
          /\ {ip_new[1].toks[i] : i \in 1..Len(ip_new[1].toks)} = UsableAddresses
          /\ \A i, j \in 1..Len(ip_new[1].toks) :
                i <= j => AddrRank(ip_new[1].toks[i]) <= AddrRank(ip_new[1].toks[j])
          /\ (/\ Cardinality(UsableAddresses) = 2
              /\ \A a \in UsableAddresses : ip2ixpid(a) = 0)
             => /\ Len(as_new[1].toks) = 2
                /\ \A i \in 1..2 : as_new[1].toks[i] = TokAs(ip2asn(ip_new[1].toks[i]))

\* two non-IXP addresses that replied in descending order form one sorted set
C15_Witness ==
    /\ OrdinaryHopCall
    /\ Len(hop_call.hop.result) >= 2
    /\ hop_call.hop.result[1].from = Transit2
    /\ hop_call.hop.result[2].from = Transit1
    /\ UsableAddresses = {Transit1, Transit2}
    /\ Appended(hop_call.path_out.as_path, hop_call.path.as_path)
          = <<SetOf(<<"as|64502", "as|64503">>)>>
    /\ Appended(hop_call.path_out.ip_path, hop_call.path.ip_path)
          = <<SetOf(<<Transit1, Transit2>>)>>

(***************************************************************************)
(* C16.  For a single-address hop whose address has non-zero IXP id N and  *)
(* ASN M, process_hop appends exactly four raw entries in the order ix|N,  *)
(* ix|N;as|M, ip|addr, as|M, all aligned with the same source address, and *)
(* exactly the first three are marked as IXP positions; for a non-IXP      *)
(* address it appends only as|M.                                           *)
(***************************************************************************)
C16_SingleAddressEntries ==
    \A a \in UsableAddresses :
      (OrdinaryHopCall /\ UsableAddresses = {a})
      => LET n == Len(hop_call.path.as_path)
             as_new == Appended(hop_call.path_out.as_path, hop_call.path.as_path)
             ip_new == Appended(hop_call.path_out.ip_path, hop_call.path.ip_path)
             marked == hop_call.path_out.ixp_indexes \ hop_call.path.ixp_indexes
         IN /\ ~hop_call.raised
            /\ ~hop_call.ret
            /\ IF ip2ixpid(a) # 0
               THEN /\ as_new = <<Single(TokIx(ip2ixpid(a))),
                                  Single(TokIxAs(ip2ixpid(a), ip2asn(a))),
                                  Single(TokIp(a)),
                                  Single(TokAs(ip2asn(a)))>>
                    /\ ip_new = <<Single(a), Single(a), Single(a), Single(a)>>
                    /\ marked = {n, n + 1, n + 2}
               ELSE /\ as_new = <<Single(TokAs(ip2asn(a)))>>
                    /\ ip_new = <<Single(a)>>
                    /\ marked = {}

\* the IXP address after one hop: positions 1, 2 and 3 (from 0) are marked
C16_Witness ==
    /\ OrdinaryHopCall
    /\ UsableAddresses = {IxpAddr}
    /\ Len(hop_call.path.as_path) = 1
    /\ hop_call.path_out.as_path =
          <<Single("as|64502"), Single("ix|7"), Single("ix|7;as|64504"),
            Single("ip|40.0.0.1"), Single("as|64504")>>
    /\ hop_call.path_out.ixp_indexes = {1, 2, 3}

(***************************************************************************)
(* Configuration errors of an invocation.                                  *)
(***************************************************************************)
\* a required option is missing or retention_ms is not an integer
RequiredOptionError ==
    \/ \E o \in RequiredOptions : o \notin invocation.config.keys
    \/ invocation.config.retention_ms \notin {"1", "2", "86400000"}

\* neither the bootstrap_servers option nor KAFKA_HOST names a server
NoBootstrapServers ==
    IF "kafka.bootstrap_servers" \in invocation.config.keys
    THEN invocation.config.bootstrap_servers = ""
    ELSE invocation.kafka_host = ""

\* the msm_ids option is not a list of integers
InvalidMsmIds ==
    /\ "input.msm_ids" \in invocation.config.keys
    /\ invocation.config.msm_ids \notin {"1", "2"}

\* the prb_ids option names a pickle that holds no probe id
NoValidProbeSet ==
    /\ "input.prb_ids" \in invocation.config.keys
    /\ invocation.config.prb_ids = "probes.pickle.bz2"
    /\ (~invocation.pickle.is_set \/ invocation.pickle.elements = {})

\* a timestamp argument is invalid or the lookup cannot be initialised
InvalidRun ==
    \/ invocation.start \notin {"500", "1000"}
    \/ invocation.stop \notin {"500", "1000"}
    \/ ~invocation.lookup_initialized

\* the process has exited non-zero and has created neither reader nor writer
ExitsBeforeIO ==
    /\ opened = {}
    /\ written = <<>> /\ updates_written = <<>> /\ stats_written = <<>>
    /\ pc \in {"start", "options", "exited"}
    /\ pc = "exited" => exit_status # 0

(***************************************************************************)
(* C17 as claimed.  Every configuration error (a missing required option,  *)
(* no bootstrap servers, an invalid filter value such as a prb_ids option  *)
(* that yields no valid probe-id set) makes the process exit with non-zero *)
(* status before the input reader or any output writer is created.         *)
(***************************************************************************)
C17_EveryConfigErrorFatal ==
    (RequiredOptionError \/ NoBootstrapServers \/ InvalidMsmIds \/ NoValidProbeSet)
    => ExitsBeforeIO

(***************************************************************************)
(* C17 amended.  A missing required option, a retention_ms that is not an  *)
(* integer, no bootstrap servers and an msm_ids option that is not a list  *)
(* of integers make the process exit with non-zero status before the input *)
(* reader or any output writer is created, and the process exits at        *)
(* startup for no other reason than these, an invalid start or stop        *)
(* timestamp or a failed lookup initialisation.  A prb_ids option that     *)
(* yields an empty probe-id set is not fatal: the probe filter is ignored  *)
(* and the run starts without it.                                          *)
(***************************************************************************)
C17_FatalConfigErrors ==
    /\ (RequiredOptionError \/ NoBootstrapServers \/ InvalidMsmIds) => ExitsBeforeIO
    /\ pc = "exited"
         => (RequiredOptionError \/ NoBootstrapServers \/ InvalidMsmIds \/ InvalidRun)
    /\ pc = "exited" => (exit_status = 1 /\ opened = {})
    /\ (NoValidProbeSet /\ pc \in {"open", "reading"}) => ~cfg.has_probe_ids
    /\ (pc = "reading" /\ "input.prb_ids" \in invocation.config.keys
          /\ ~NoValidProbeSet) => cfg.has_probe_ids

\* the configuration is complete but names no server: exit status 1, nothing opened
C17_Witness ==
    /\ pc = "exited"
    /\ exit_status = 1
    /\ opened = {}
    /\ ~RequiredOptionError
    /\ ~InvalidRun
    /\ ~InvalidMsmIds
    /\ NoBootstrapServers

(***************************************************************************)
(* The end of a run.                                                       *)
(***************************************************************************)
\* the run has written its summary: it is done, or print_stats has run
SummaryWritten ==
    \/ pc \in {"done", "printed"}
    \/ pc = "crashed" /\ stats_written # <<>>

\* the run has finished reading its input and has written its marker
MarkerWritten == pc = "summary" \/ SummaryWritten

\* the ASN of the destination of a message
DstAsn(msg) == ip2asn(get_dst_addr(msg))

\* the elements of a list
Elements(list) == {list[i] : i \in 1..Len(list)}

(***************************************************************************)
(* C18.  Every run that finishes reading its input writes exactly one      *)
(* end-of-run marker, after all RIB records of the run have been written:  *)
(* no marker exists while records are read, exactly one exists from then   *)
(* on, and no RIB record is written once it exists.  The marker carries    *)
(* peer AS "0" and, like a withdrawal, only the prefix 0.0.0.0/0; it is    *)
(* written also when the run emitted no RIB record.                        *)
(***************************************************************************)
C18_OneMarkerAfterRibRecords ==
    /\ [](~MarkerWritten => updates_written = <<>>)
    /\ [](MarkerWritten =>
            /\ Len(updates_written) = 1
            /\ updates_written[1].data.peer_asn = "0"
            /\ updates_written[1].data.fields = [prefix |-> "0.0.0.0/0"]
            /\ updates_written[1].timestamp = (cfg.unified_timestamp + 1) * 1000
            /\ "ribs_writer" \notin opened)
    /\ [][pc = "marker" => (pc' = "summary" /\ Len(updates_written') = 1)]_vars
    /\ [][updates_written # <<>> => written' = written]_vars

\* a run that read three records and emitted none has written its marker
C18_Witness ==
    /\ pc = "done"
    /\ nread = 3
    /\ stats.total = 3
    /\ written = <<>>
    /\ Len(updates_written) = 1
    /\ updates_written[1].data.fields.prefix = "0.0.0.0/0"

(***************************************************************************)
(* C19.  Every run that finishes reading its input writes exactly one run  *)
(* summary record {start, stop, msm_ids, target_asn, stats}, after the     *)
(* end-of-run marker.  The scope set grows by the destination ASN of       *)
(* every message for which an OutputRecord is emitted and by nothing else, *)
(* and the summary carries exactly that set, each ASN once.                *)
(***************************************************************************)
C19_OneSummaryWithScopes ==
    /\ [](~SummaryWritten => stats_written = <<>>)
    /\ [][stats_written' # stats_written => pc = "summary"]_vars
    /\ [](pc \in {"reading", "marker", "summary"} =>
            /\ written = <<>> => stats.scopes = {}
            /\ Cardinality(stats.scopes) <= Len(written))
    /\ [][ReadStep =>
            stats'.scopes = stats.scopes \cup
                (IF last'.ret # <<>> THEN {DstAsn(last'.msg)} ELSE {})]_vars
    /\ [][pc = "summary" =>
            /\ pc' = "done"
            /\ Len(updates_written) = 1
            /\ updates_written' = updates_written
            /\ written' = written
            /\ Len(stats_written') = 1
            /\ DOMAIN stats_written'[1].data =
                  {"start", "stop", "msm_ids", "target_asn", "stats"}
            /\ Elements(stats_written'[1].data.stats.scopes) = stats.scopes
            /\ Len(stats_written'[1].data.stats.scopes) = Cardinality(stats.scopes)
            /\ \A c \in Counters : stats_written'[1].data.stats[c] = stats[c]]_vars

\* the summary of a run that emitted records towards two destination ASes
C19_Witness ==
    /\ pc = "done"
    /\ Len(stats_written) = 1
    /\ Len(updates_written) = 1
    /\ Len(written) = 2
    /\ Elements(stats_written[1].data.stats.scopes) = {"64500", "64501"}
    /\ stats_written[1].data.start = 500
    /\ stats_written[1].data.stop = 1000

(***************************************************************************)
(* C20.  While filter_rib_topic copies the RIB topic, an out-of-order      *)
(* warning is logged exactly for those written messages whose timestamp is *)
(* smaller than the timestamp of the previously written message: the       *)
(* warnings logged are, in order, the pairs (previous, current) of the     *)
(* written messages that go back in time.  Such a message is still         *)
(* written and the copy continues: every message that filter_msg lets      *)
(* through is written, with or without a warning.                          *)
(***************************************************************************)
\* the pairs of adjacent records among the first n that go back in time
RECURSIVE BackwardPairs(_, _)
BackwardPairs(records, n) ==
    IF n <= 1 THEN <<>>
    ELSE BackwardPairs(records, n - 1) \o
            (IF records[n].timestamp < records[n - 1].timestamp
             THEN <<<<records[n - 1].timestamp \div 1000,
                      records[n].timestamp \div 1000>>>>
             ELSE <<>>)

\* a step of the copy that read one message of the RIB topic
RibStep == rib_filter.pc = "ribs" /\ rib_filter'.nread = rib_filter.nread + 1

C20_WarningExactlyWhenOutOfOrder ==
    /\ [](rib_filter.warnings
            = BackwardPairs(rib_filter.rib_written, Len(rib_filter.rib_written)))
    /\ [][RibStep =>
            LET f == filter_msg(rib_filter'.msg, rib_filter.filters)
                before == rib_filter.rib_written
            IN /\ rib_filter'.pc = "ribs"
               /\ IF f.ret = <<>>
                  THEN /\ rib_filter'.rib_written = before
                       /\ rib_filter'.warnings = rib_filter.warnings
                  ELSE /\ rib_filter'.rib_written =
                             Append(before,
                                    [key |-> RibKey(f.prb_id), data |-> f.ret[1],
                                     timestamp |-> rib_filter'.msg.rec.time * 1000])
                       /\ Len(rib_filter'.warnings) = Len(rib_filter.warnings)
                             + (IF /\ before # <<>>
                                   /\ rib_filter'.msg.rec.time * 1000
                                         < before[Len(before)].timestamp
                                THEN 1 ELSE 0)]_vars

\* three messages written, the second and the third each older than the one
\* before: two warnings, nothing dropped
C20_Witness ==
    /\ rib_filter.pc = "ribs"
    /\ Len(rib_filter.rib_written) = 3
    /\ rib_filter.rib_written[1].timestamp = 3000
    /\ rib_filter.rib_written[2].timestamp = 2000
    /\ rib_filter.rib_written[3].timestamp = 1000
    /\ rib_filter.warnings = <<<<3, 2>>, <<2, 1>>>>
(***************************************************************************)
(* C21.  For every raw path accumulated by process_message the reduced AS  *)
(* path is no longer than the raw path, and the reduction is idempotent:   *)
(* reducing the already-reduced path (AS path, IP path and IXP indexes)    *)
(* yields the same AS path, IP path and IXP indexes.                       *)
(***************************************************************************)
\* the path that holds the reduced path of path as its raw path
ReducedAsRaw(path) ==
    [path EXCEPT !.as_path = ReducedAsPath(path),
                 !.ip_path = ReducedIpPath(path),
                 !.ixp_indexes = get_reduced_ixp_indexes(path)]

EndToEndTraceroute ==
    <<Hop(1, <<Reply(Transit2), Reply(Transit1)>>), Hop(2, <<ReplyTimeout>>),
      Hop(3, <<Reply(Dst)>>)>>

\* the last call went through the example and reached the reducer
EndToEndCall ==
    /\ last.msg.keys = AllKeys
    /\ ip2asn(last.msg.from) = "64500"
    /\ ip2asn(get_dst_addr(last.msg)) = "64501"
    /\ last.msg.result = EndToEndTraceroute
    /\ last.reached = "reduce"

C22_Observed ==
    /\ EndToEndCall
    /\ last.ret # <<>>
    /\ last.ret[1].fields.as_path
          = <<SetOf(<<"as|64502", "as|64503">>), Single("as|64501")>>
    /\ last.ret[1].fields.full_as_path
          = <<SetOf(<<"as|64502", "as|64503">>), Single(TokTimeout),
              Single("as|64501")>>
    /\ stats.start_as_missing >= 1

(***************************************************************************)
(* C23.  The download writer keeps the chronological order per key: over   *)
(* the whole run, of two records written with the same measurement-id key  *)
(* the one written later never has the smaller timestamp.                  *)
(***************************************************************************)
C23_DownloadOrderedPerKey ==
    \A i, j \in 1..Len(download.written) :
        (i < j /\ download.written[i].key = download.written[j].key)
        => download.written[i].timestamp <= download.written[j].timestamp

\* two chunks were written, the last one arrived out of order, and one
\* measurement has records of different times
C23_Witness ==
    /\ download.pc = "done"
    /\ download.chunks >= 2
    /\ Len(download.data) >= 2
    /\ download.data[1].timestamp > download.data[2].timestamp
    /\ download.data[1].msm_id = download.data[2].msm_id
    /\ Len(download.written) >= 3
    /\ download.written[1].key = download.written[Len(download.written)].key
    /\ download.written[1].timestamp
          < download.written[Len(download.written)].timestamp

(***************************************************************************)
(* C24.  Real addresses take priority over the timeout placeholder: when a *)
(* hop (TTL other than 255) has at least one usable source address and     *)
(* also replies that timed out or carry no address, no appended entry is   *)
(* the placeholder as|0 / * or holds it; with exactly one distinct usable  *)
(* address the hop is appended as the entries of that single address,      *)
(* never as a set.                                                         *)
(***************************************************************************)
\* the reply adds the placeholder to the addresses of its hop
PlaceholderReply(reply, seen) ==
    /\ "error" \notin reply.keys
    /\ ~Suppressed(reply, seen)
    /\ ("x" \in reply.keys \/ "from" \notin reply.keys)

\* the tokens of a sequence of path positions
TokensOf(entries) ==
    UNION {{entries[k].toks[i] : i \in 1..Len(entries[k].toks)} : k \in 1..Len(entries)}

C24_RealAddressBeatsPlaceholder ==
    (/\ OrdinaryHopCall
     /\ UsableAddresses # {}
     /\ \E i \in 1..Len(hop_call.hop.result) :
           PlaceholderReply(hop_call.hop.result[i], hop_call.path.seen))
    => LET as_new == Appended(hop_call.path_out.as_path, hop_call.path.as_path)
           ip_new == Appended(hop_call.path_out.ip_path, hop_call.path.ip_path)
       IN /\ ~hop_call.raised
          /\ ~hop_call.ret
          /\ TokTimeout \notin TokensOf(as_new)
          /\ Star \notin TokensOf(ip_new)
          /\ TokensOf(ip_new) = UsableAddresses
          /\ Cardinality(UsableAddresses) = 1
             => /\ \A k \in 1..Len(as_new) : ~as_new[k].set
                /\ \A k \in 1..Len(ip_new) : ~ip_new[k].set
                /\ Len(as_new) = Len(ip_new)
                /\ Len(as_new) \in {1, 4}
                /\ \A a \in UsableAddresses :
                      as_new[Len(as_new)] = Single(TokAs(ip2asn(a)))

\* a timeout, an address and a reply without address gave the one entry of
\* the address
C24_Witness ==
    /\ OrdinaryHopCall
    /\ hop_call.hop.result = <<ReplyTimeout, Reply(Transit2), ReplyNoFrom>>
    /\ Appended(hop_call.path_out.as_path, hop_call.path.as_path)
          = <<Single("as|64503")>>
    /\ Appended(hop_call.path_out.ip_path, hop_call.path.ip_path)
          = <<Single(Transit2)>>

(***************************************************************************)
(* C25.  A reply that carries an inline error code and whose source        *)
(* address is already in the path is skipped: it adds neither its address  *)
(* nor its code to the hop.  A reply with an inline error code whose       *)
(* address is not yet in the path is honoured: its address is appended     *)
(* with the hop and registered as seen, and its code is annotated.         *)
(***************************************************************************)
\* the replies of the hop of the call that are honoured with their address
Honoured ==
    {i \in 1..Len(hop_call.hop.result) :
       /\ ~Suppressed(hop_call.hop.result[i], hop_call.path.seen)
       /\ "x" \notin hop_call.hop.result[i].keys
       /\ "from" \in hop_call.hop.result[i].keys}

\* the error codes of the honoured replies, as strings
HonouredCodes ==
    {Str(hop_call.hop.result[i].err) :
       i \in {j \in Honoured : "err" \in hop_call.hop.result[j].keys}}

\* the annotations the call added
NewAttributes == hop_call.path_out.attributes \ hop_call.path.attributes

C25_SeenErrorReplySkipped ==
    OrdinaryHopCall
    => LET ip_new == Appended(hop_call.path_out.ip_path, hop_call.path.ip_path)
           result == hop_call.hop.result
       IN /\ ~hop_call.raised
          /\ \A i \in 1..Len(result) :
                Suppressed(result[i], hop_call.path.seen)
                => \* no address: it is appended only if another reply brings it
                   /\ result[i].from \in TokensOf(ip_new)
                      => \E j \in Honoured : result[j].from = result[i].from
                   \* no code: it is annotated only if another reply brings it
                   /\ \A an \in NewAttributes :
                         an[2] = JoinSorted(HonouredCodes)
                   /\ HonouredCodes = {} => NewAttributes = {}
          /\ (\A i \in 1..Len(result) : Suppressed(result[i], hop_call.path.seen))
             => /\ hop_call.path_out.as_path = hop_call.path.as_path
                /\ hop_call.path_out.ip_path = hop_call.path.ip_path
                /\ NewAttributes = {}
          /\ \A i \in Honoured :
                "err" \in result[i].keys
                => /\ ~hop_call.ret
                   /\ result[i].from \in TokensOf(ip_new)
                   /\ result[i].from \in hop_call.path_out.seen
                   /\ NewAttributes
                         = {<<Len(hop_call.path.as_path), JoinSorted(HonouredCodes)>>}
                   /\ Str(result[i].err) \in HonouredCodes
                   /\ has_errors(hop_call.path_out)

\* the error reply of the address in the path is skipped, the one of a new
\* address is honoured with its code
C25_Witness ==
    /\ OrdinaryHopCall
    /\ hop_call.path.seen = {Transit1}
    /\ hop_call.hop.result = <<ReplyErr(Transit1, ErrH), ReplyErr(Transit2, ErrN)>>
    /\ Appended(hop_call.path_out.ip_path, hop_call.path.ip_path)
          = <<Single(Transit2)>>
    /\ NewAttributes = {<<1, "N">>}

(***************************************************************************)
(* C26.  A hop for which no address results, usable or placeholder - its   *)
(* reply list is empty, or every reply is skipped as an error reply of an  *)
(* address already in the path - is unreachable: dnf is counted once, the  *)
(* fold stops at that hop and the message is discarded: no other counter   *)
(* of a rejection or of a used path changes, the result is empty, nothing  *)
(* is written and the key is not marked as seen.                           *)
(***************************************************************************)
\* no address results for the hop
ZeroAddresses(hop, seen) ==
    /\ "error" \notin hop.keys
    /\ "result" \in hop.keys
    /\ \A i \in 1..Len(hop.result) : Suppressed(hop.result[i], seen)

SortedCodes(codes) ==
    CASE codes = {"5"} -> "5"
      [] codes = {"H"} -> "H"
      [] codes = {"N"} -> "N"
      [] codes = {"5", "H"} -> "5 H"
      [] codes = {"5", "N"} -> "5 N"
      [] codes = {"H", "N"} -> "H N"
      [] codes = {"5", "H", "N"} -> "5 H N"
      [] OTHER -> ""

\* the calls the hop made on the path
NewCalls == Appended(hop_call.path_out.calls, hop_call.path.calls)

C27_ErrorMarkedOnceBeforeAppend ==
    (OrdinaryHopCall /\ ~hop_call.ret /\ ~hop_call.raised)
    => /\ Len(NewCalls) >= 1
       /\ \A k \in 2..Len(NewCalls) : NewCalls[k][1] \in {"append", "append_set"}
       /\ IF HonouredCodes # {}
          THEN /\ NewCalls[1] = <<"mark_hop_error", SortedCodes(HonouredCodes)>>
               /\ Len(NewCalls) >= 2
               /\ NewAttributes
                     = {<<Len(hop_call.path.as_path), SortedCodes(HonouredCodes)>>}
               /\ has_errors(hop_call.path_out)
          ELSE /\ NewCalls[1][1] \in {"append", "append_set"}
               /\ NewAttributes = {}
               /\ has_errors(hop_call.path_out) = has_errors(hop_call.path)

\* three honoured replies with the codes N, 5 and H: one annotation '5 H N',
\* made before the set of the two addresses is appended
C27_Witness ==
    /\ OrdinaryHopCall
    /\ hop_call.hop.result
          = <<ReplyErr(Transit2, ErrN), ReplyErr(Transit1, ErrH),
              ReplyErr(Transit2, Err5)>>
    /\ hop_call.path.seen = {}
    /\ NewCalls = <<<<"mark_hop_error", "5 H N">>, <<"append_set", "">>>>
    /\ hop_call.path_out.attributes = {<<0, "5 H N">>}

(***************************************************************************)
(* C28.  For every ambiguous hop the tuple of AS tokens and the tuple of   *)
(* addresses passed to append_set have equal length: a member with a       *)
(* non-zero IXP id N and ASN M fills four aligned slots, ix|N, ix|N;as|M,  *)
(* ip|addr and as|M against its address four times, any other member one   *)
(* slot, as|M against its address; and the position is marked as an IXP    *)
(* position iff at least one member has a non-zero IXP id.                 *)
(***************************************************************************)
\* the slots of the address in the tuple of addresses
SlotsOf(ip_set, a) == {i \in 1..Len(ip_set) : ip_set[i] = a}

\* the first slot of the address
FirstSlot(ip_set, a) ==
    CHOOSE i \in SlotsOf(ip_set, a) : \A j \in SlotsOf(ip_set, a) : i <= j

C28_SetTuplesAligned ==
    (OrdinaryHopCall /\ Cardinality(UsableAddresses) >= 2)
    => LET as_new == Appended(hop_call.path_out.as_path, hop_call.path.as_path)
           ip_new == Appended(hop_call.path_out.ip_path, hop_call.path.ip_path)
       IN /\ Len(as_new) = 1
          /\ Len(ip_new) = 1
          /\ NewCalls[Len(NewCalls)][1] = "append_set"
          /\ Len(as_new[1].toks) = Len(ip_new[1].toks)
          /\ \A i \in 1..Len(ip_new[1].toks) : ip_new[1].toks[i] \in UsableAddresses
          /\ \A a \in UsableAddresses :
                /\ SlotsOf(ip_new[1].toks, a) # {}
                /\ LET first == FirstSlot(ip_new[1].toks, a)
                   IN IF ip2ixpid(a) # 0
                      THEN /\ SlotsOf(ip_new[1].toks, a) = first..(first + 3)
                           /\ SubSeq(as_new[1].toks, first, first + 3)
                                 = <<TokIx(ip2ixpid(a)),
                                     TokIxAs(ip2ixpid(a), ip2asn(a)),
                                     TokIp(a), TokAs(ip2asn(a))>>
                      ELSE /\ SlotsOf(ip_new[1].toks, a) = {first}
                           /\ as_new[1].toks[first] = TokAs(ip2asn(a))
          /\ (Len(hop_call.path.as_path) \in hop_call.path_out.ixp_indexes)
             <=> (\E a \in UsableAddresses : ip2ixpid(a) # 0)
          /\ hop_call.path_out.ixp_indexes \ {Len(hop_call.path.as_path)}
                = hop_call.path.ixp_indexes

\* an IXP address and another address: five aligned slots, marked as IXP
\* position
C28_Witness ==
    /\ OrdinaryHopCall
    /\ UsableAddresses = {Transit2, IxpAddr}
    /\ Len(hop_call.path.as_path) = 1
    /\ hop_call.path_out.as_path[2]
          = SetOf(<<"as|64503", "ix|7", "ix|7;as|64504", "ip|40.0.0.1", "as|64504">>)
    /\ hop_call.path_out.ip_path[2]
          = SetOf(<<Transit2, IxpAddr, IxpAddr, IxpAddr, IxpAddr>>)
    /\ hop_call.path_out.ixp_indexes = {1}

(***************************************************************************)
(* C29.  An --output-timestamp argument that cannot be parsed is fatal at  *)
(* startup: the process never gets past the options, it exits with a       *)
(* non-zero status, no reader or writer is opened and nothing is written,  *)
(* so no output timestamp 0 is handed to process_message.                  *)
(***************************************************************************)
\* --output-timestamp is given and convert_date_to_epoch cannot parse it
OutputTimestampInvalid ==
    /\ invocation.has_output_timestamp
    /\ convert_date_to_epoch(invocation.output_timestamp) = 0

C29_InvalidOutputTimestampFatal ==
    OutputTimestampInvalid =>
        /\ pc \in {"start", "options", "exited"}
        /\ pc = "exited" => exit_status # 0
        /\ opened = {}
        /\ written = <<>> /\ updates_written = <<>> /\ stats_written = <<>>

\* the run that was started with an unparsable --output-timestamp reads the
\* input topic, with 0 as the timestamp of everything it will write
C29_RunsWithTimestampZero ==
    /\ OutputTimestampInvalid
    /\ pc = "reading"
    /\ opened = {"reader", "ribs_writer"}
    /\ cfg.unified_timestamp = 0
    /\ exit_status = 0
(***************************************************************************)
(* C30.  On every exit path of a run the readers and writers that were     *)
(* opened are closed before the process ends: when traceroute_to_bgp has   *)
(* ended, by sys.exit at startup, by an exception raised while a record    *)
(* is processed or written, or after its summary, and when                 *)
(* filter_rib_topic has ended, by an exception or after its copy, nothing  *)
(* is open.  The exit status is 1 after sys.exit at startup, where no      *)
(* record has been read, and after an exception, and 0 after the summary.  *)
(***************************************************************************)
\* the process has ended, or has only print_stats left
Ended == pc \in {"exited", "crashed", "done", "printed"}

\* filter_rib_topic has ended
FilterEnded == rib_filter.pc \in {"crashed", "done"}

C30_ClosedOnEveryExit ==
    /\ Ended => opened = {}
    /\ FilterEnded => rib_filter.opened = {}
    /\ pc = "exited" => exit_status = 1 /\ nread = 0
    /\ pc = "crashed" => exit_status = 1
    /\ pc \in {"done", "printed"} => exit_status = 0

\* the run wrote one record and ended by the exception of the second write
C30_Witness ==
    /\ pc = "crashed"
    /\ nread = 2
    /\ Len(written) = 1
    /\ ~last.raised
    /\ last.ret # <<>>
    /\ opened = {}
    /\ exit_status = 1
(***************************************************************************)
(* C31.  Counter conservation before the path stage: in a run with no      *)
(* target-ASN filter, after any sequence of messages total equals          *)
(* no_dst_addr + no_dst_asn + no_prefix + no_from + no_peer_asn +          *)
(* duplicate + accepted.                                                   *)
(***************************************************************************)
\* the outcomes of a counted message before the path stage
PreconditionOutcomes(st) ==
    st.no_dst_addr + st.no_dst_asn + st.no_prefix + st.no_from + st.no_peer_asn
        + st.duplicate + st.accepted

C31_TotalConserved ==
    ~cfg.has_target_asn => stats.total = PreconditionOutcomes(stats)

\* the run ended with a message that was counted in total and in no outcome
C31_CountedWithoutOutcome ==
    /\ ~cfg.has_target_asn
    /\ pc = "crashed"
    /\ last.reached = "probe"
    /\ stats.total = PreconditionOutcomes(stats) + 1

\* as long as no exception has left process_message the counters add up
C31_ConservedWhileRunning ==
    (~cfg.has_target_asn /\ pc # "crashed")
        => stats.total = PreconditionOutcomes(stats)
(***************************************************************************)
(* C32.  Counter conservation in the path stage: after any sequence of     *)
(* messages accepted equals dnf + empty_path + single_as + used, every     *)
(* message that passed the duplicate check is counted in exactly one of    *)
(* the four outcomes.                                                      *)
(***************************************************************************)
\* the outcomes of an accepted message
PathOutcomes(st) == st.dnf + st.empty_path + st.single_as + st.used

C32_AcceptedConserved == stats.accepted = PathOutcomes(stats)

\* the run ended with a message that was accepted and has none of the four
\* outcomes: its hops could not be read
C32_AcceptedWithoutOutcome ==
    /\ pc = "crashed"
    /\ last.reached = "fold"
    /\ stats.accepted = PathOutcomes(stats) + 1

\* as long as no exception has left process_message the counters add up
C32_ConservedWhileRunning ==
    pc # "crashed" => stats.accepted = PathOutcomes(stats)
(***************************************************************************)
(* C33.  A dedup key enters the dedup set only when an OutputRecord for it *)
(* is emitted.  With include_duplicates = false the dedup set is the set   *)
(* of the keys of the emitted records, and its size, used and the number   *)
(* of emitted records are equal.  A message that yields no record leaves   *)
(* the dedup set as it is, so a message rejected as unreachable, empty     *)
(* path or single AS never makes a later message of its key a duplicate:   *)
(* a message is rejected as duplicate only if a record of its key was      *)
(* emitted before.                                                         *)
(***************************************************************************)
C33_KeyEntersOnlyWhenEmitted ==
    /\ [](~cfg.include_duplicates =>
            /\ seen_peer_prefixes = EmittedKeys
            /\ Cardinality(seen_peer_prefixes) = stats.used
            /\ stats.used = Len(written))
    /\ [][ReadStep =>
            IF last'.ret = <<>>
            THEN seen_peer_prefixes' = seen_peer_prefixes
            ELSE seen_peer_prefixes' = seen_peer_prefixes \cup {KeyOf(last'.msg)}]_vars
    /\ [][(ReadStep /\ stats'.duplicate = stats.duplicate + 1)
            => (~cfg.include_duplicates /\ KeyOf(last'.msg) \in EmittedKeys)]_vars

\* after an unreachable and an empty-path message from the peer to the
\* destination, the third message of that key is not a duplicate: its record
\* is emitted and only then the key is in the dedup set
C33_Witness ==
    /\ ~cfg.include_duplicates
    /\ nread = 3
    /\ stats.dnf = 1
    /\ stats.empty_path = 1
    /\ stats.accepted = 3
    /\ stats.duplicate = 0
    /\ stats.used = 1
    /\ last.ret # <<>>
    /\ KeyOf(last.msg) = <<PeerA, "20.0.0.0/24">>
    /\ seen_peer_prefixes = {<<PeerA, "20.0.0.0/24">>}
(***************************************************************************)
(* C34.  print_stats completes without error for every counter state       *)
(* reachable at the end of a run: after the summary is written the         *)
(* statistics are printed and the process ends with status 0, also when    *)
(* total > 0 and no message was accepted or none was used.                 *)
(***************************************************************************)
C34_PrintStatsCompletes ==
    [][pc = "done" => (pc' = "printed" /\ exit_status' = 0)]_vars

\* a run that counted messages and used none ended in print_stats with the
\* ZeroDivisionError, after it had written its marker and its summary
C34_PrintStatsRaised ==
    /\ pc = "crashed"
    /\ exit_status = 1
    /\ stats_written # <<>>
    /\ stats.total > 0
    /\ stats.accepted > 0
    /\ stats.used = 0

\* print_stats completes exactly for the runs that counted nothing or used
\* at least one message
C34_CompletesIffUsedOrEmpty ==
    [][pc = "done" =>
         (pc' = "printed" <=> (stats.total = 0 \/ stats.used > 0))]_vars
(***************************************************************************)
(* C35 as claimed.  With a probe-id allow-list, a message whose integer    *)
(* prb_id is one of the listed ids passes the probe-id filter: it is       *)
(* counted in total.  Only a message whose prb_id is not listed is         *)
(* Filtered: it yields the empty result and changes no counter.            *)
(***************************************************************************)
\* the id is one of the configured ids, as a number or as its decimal string
Listed(prb_id) ==
    \/ IntPrbId(prb_id) \in cfg.probe_ids
    \/ StrPrbId(DecimalString(prb_id)) \in cfg.probe_ids

\* the message has both ids and passes the measurement-id allow-list
ReachesProbeFilter(msg) ==
    /\ {"msm_id", "prb_id"} \subseteq msg.keys
    /\ cfg.has_probe_ids
    /\ ~(cfg.has_msm_ids /\ msg.msm_id \notin cfg.msm_ids)

C35_ListedProbePasses ==
    [][(ReadStep /\ ReachesProbeFilter(last'.msg))
       => IF Listed(last'.msg.prb_id)
          THEN stats'.total = stats.total + 1
          ELSE last'.ret = <<>> /\ stats' = stats]_vars

\* with prb_ids = 1,2 a message of probe 1 was read and Filtered
C35_ListedProbeFiltered ==
    /\ cfg = CsvProbesConfig
    /\ invocation.config.prb_ids = "1,2"
    /\ nread = 1
    /\ last.msg.keys = AllKeys
    /\ last.msg.prb_id = 1
    /\ last.reached = "filter"
    /\ last.ret = <<>>
    /\ stats.total = 0

\* with prb_ids given as CSV every message that has a prb_id is Filtered
C35_CsvProbesFilterEverything ==
    [][(ReadStep /\ cfg = CsvProbesConfig /\ "prb_id" \in last'.msg.keys)
       => (last'.ret = <<>> /\ stats' = stats /\ written' = written)]_vars

\* with the probe ids of a pickled set of ints the listed probe passes
C35_PickledProbesPass ==
    [][(/\ ReadStep
        /\ ReachesProbeFilter(last'.msg)
        /\ cfg # CsvProbesConfig)
       => IF Listed(last'.msg.prb_id)
          THEN stats'.total = stats.total + 1
          ELSE last'.ret = <<>> /\ stats' = stats]_vars
(***************************************************************************)
(* C36.  AtlasDownloader.fetch always terminates and returns: it performs  *)
(* at most max_retries + 1 request rounds, each round requests exactly     *)
(* the measurement ids that have not yet succeeded, the data of each       *)
(* measurement id is added to the result at most once, and when the call   *)
(* returns the ids that never succeeded are reported while the data of     *)
(* all others is returned.  (For a list of distinct measurement ids.)      *)
(***************************************************************************)
\* the entries of the measurement among the results, in order
ResultsOf(results, msm_id) == SelectSeq(results, LAMBDA e : e.msm_id = msm_id)

\* the ids of the call whose data is not among the results
NotFetched(call) ==
    {call.msm_ids[i] : i \in 1..Len(call.msm_ids)}
        \ {call.results[i].msm_id : i \in 1..Len(call.results)}

WindowsOf(t) ==
    {i \in 1..Len(download.windows) :
        download.windows[i][1] <= t /\ t <= download.windows[i][2]}

C37_WindowsCoverExactlyOnce ==
    /\ download.current_chunk_start < download.end_ts + download.chunk_size
    /\ \A t \in download.start_ts..(download.end_ts - 1) :
          Cardinality(WindowsOf(t)) <= 1
    /\ download.pc = "done" =>
          \A t \in download.start_ts..(download.end_ts - 1) :
              Cardinality(WindowsOf(t)) = 1
    /\ \A i, j \in 1..Len(download.written) :
          download.written[i].data = download.written[j].data => i = j

\* the second at which a chunk ends is fetched again by the next chunk, and
\* the result of that second was written twice
C37_BoundaryFetchedTwice ==
    /\ download.pc = "done"
    /\ download.start_ts = 10
    /\ download.end_ts = 14
    /\ download.chunk_size = 2
    /\ download.windows = <<<<10, 12>>, <<12, 13>>>>
    /\ \E i, j \in 1..Len(download.written) :
          /\ i < j
          /\ download.written[i].data = download.written[j].data
          /\ download.written[i].data.timestamp = 12

\* the loop ends, every second of [start, end - 1] is fetched, and the only
\* seconds fetched twice are those at which a chunk ends and the next begins
C37_OnlyBoundariesTwice ==
    /\ download.current_chunk_start < download.end_ts + download.chunk_size
    /\ \A t \in download.start_ts..(download.end_ts - 1) :
          /\ Cardinality(WindowsOf(t)) <= 2
          /\ Cardinality(WindowsOf(t)) = 2 =>
                \E i \in 1..(Len(download.windows) - 1) :
                    /\ download.windows[i][2] = t
                    /\ download.windows[i + 1][1] = t
    /\ download.pc = "done" =>
          \A t \in download.start_ts..(download.end_ts - 1) :
              Cardinality(WindowsOf(t)) >= 1

(***************************************************************************)
(* C38  The feature extractor's process_message returns the empty result,  *)
(* and so no record is written, for every message whose destination        *)
(* address or source address resolves to the unknown AS, "0".              *)
(***************************************************************************)
\* ip2asn returns "0" for the destination or for the source of msg
ResolvesToUnknownAs(msg) ==
    \/ get_dst_addr(msg) # "" /\ ip2asn(get_dst_addr(msg)) = "0"
    \/ "from" \in msg.keys /\ msg.from # "" /\ ip2asn(msg.from) = "0"

C38_UnknownAsGivesEmptyResult ==
    (features.nread > 0 /\ ResolvesToUnknownAs(features.msg))
        => /\ features.ret = <<>>
           /\ ~features.raised

\* a record of the unknown AS is written
C38_UnknownAsWritten ==
    \E i \in 1..Len(features.written) :
        "0" \in {features.written[i].data.src_asn, features.written[i].data.dst_asn}

\* the integer comparison rejects nothing: a message with a destination and
\* a source gets as far as its hops whatever they resolve to
C38_ComparisonNeverRejects ==
    (/\ features.nread > 0
     /\ get_dst_addr(features.msg) # ""
     /\ "from" \in features.msg.keys /\ features.msg.from # ""
     /\ features.msg.result = GoodTraceroute
     /\ {"result", "prb_id"} \subseteq features.msg.keys)
        => features.ret # <<>>

(***************************************************************************)
(* C39  In compute_as_rank, after any sequence of feature messages every   *)
(* feature matrix is symmetric and, for every AS pair that received a      *)
(* value, holds the minimum of the values received for the pair in either  *)
(* direction (AS-hop values incremented by one), whatever the order of the *)
(* messages.                                                               *)
(***************************************************************************)
\* the values of feature that msgs hold for the pair of p_idx and d_idx,
\* in either direction
ReceivedValues(msgs, feature, p_idx, d_idx) ==
    { MsgFeatureValue(msgs[i], feature) :
        i \in { j \in 1..Len(msgs) :
                  /\ InAsnIdx(msgs[j].peer) /\ InAsnIdx(msgs[j].dst)
                  /\ {asn_idx(msgs[j].peer), asn_idx(msgs[j].dst)} = {p_idx, d_idx}
                  /\ HasFeature(msgs[j], feature) } }

Minimum(values) == CHOOSE v \in values : \A w \in values : v <= w

\* the matrices after msgs read in the order given by order
RECURSIVE ReadInOrder(_, _, _, _)
ReadInOrder(msgs, order, i, feature_values) ==
    IF i > Len(msgs) THEN feature_values
    ELSE ReadInOrder(msgs, order, i + 1, ReadFeatures(feature_values, msgs[order[i]]))

Orders(n) == { f \in [1..n -> 1..n] : \A i, j \in 1..n : f[i] = f[j] => i = j }

Symmetric(matrix) ==
    \A p \in 0..(num_as - 1), d \in 0..(num_as - 1) : matrix[p][d] = matrix[d][p]

HoldsMinimum(msgs, feature, matrix) ==
    \A p \in 0..(num_as - 1), d \in 0..(num_as - 1) :
        ReceivedValues(msgs, feature, p, d) # {}
            => matrix[p][d] = Minimum(ReceivedValues(msgs, feature, p, d))

OrderIndependent(msgs, feature_values) ==
    \A order \in Orders(Len(msgs)) :
        ReadInOrder(msgs, order, 1, ZeroMatrices) = feature_values

C39_SymmetricMinimum ==
    /\ \A feature \in enabled_features :
          /\ Symmetric(as_rank.feature_values[feature])
          /\ HoldsMinimum(as_rank.msgs, feature, as_rank.feature_values[feature])
    /\ OrderIndependent(as_rank.msgs, as_rank.feature_values)

\* a value of zero was received for a feature
ZeroReceived(msgs) ==
    \E i \in 1..Len(msgs), feature \in enabled_features :
        /\ InAsnIdx(msgs[i].peer) /\ InAsnIdx(msgs[i].dst)
        /\ HasFeature(msgs[i], feature)
        /\ MsgFeatureValue(msgs[i], feature) = 0

\* the matrices are symmetric in every state
C39_AlwaysSymmetric ==
    \A feature \in enabled_features : Symmetric(as_rank.feature_values[feature])

\* without a value of zero the matrices hold the minima in every order
C39_MinimumOfNonZeroValues ==
    ~ZeroReceived(as_rank.msgs) => C39_SymmetricMinimum

\* a pair received a zero and a larger value, and holds the larger one
C39_ZeroOverwritten ==
    \E feature \in enabled_features :
        /\ 0 \in ReceivedValues(as_rank.msgs, feature, 0, 1)
        /\ as_rank.feature_values[feature][0][1] > 0

(***************************************************************************)
(* C40  filter_msg returns a message whose elements are exactly the input  *)
(* elements that pass all configured filters, in input order: peer_asn in  *)
(* asn_list, the element's own prb_id in prb_list, no excluded path        *)
(* attribute present, every required path attribute present with an equal  *)
(* string value.  It returns the empty result iff no element passes, and   *)
(* the input message and its list of elements are not modified.  Stated    *)
(* for the messages that have rec, time and elements, and with an element  *)
(* that lacks peer_asn, fields or path-attributes passing no filter.       *)
(***************************************************************************)
WellFormedMsg(msg) ==
    /\ {"rec", "elements"} \subseteq msg.keys
    /\ "time" \in msg.rec.keys

WellFormedElement(element) ==
    /\ {"peer_asn", "fields"} \subseteq element.keys
    /\ "path-attributes" \in element.fields.keys

\* the element passes the configured filters, with its own prb_id
PassesFilters(element, filters) ==
    /\ WellFormedElement(element)
    /\ filters.asn_list # {} => element.peer_asn \in filters.asn_list
    /\ filters.prb_list # {} =>
          /\ "prb_id" \in element.keys
          /\ element.prb_id.kind = "str"
          /\ element.prb_id.s \in filters.prb_list
    /\ \A a \in filters.excluded_path_attributes :
          a \notin DOMAIN element.fields.path_attributes
    /\ \A a \in DOMAIN filters.path_attributes :
          /\ a \in DOMAIN element.fields.path_attributes
          /\ str(element.fields.path_attributes[a]) = filters.path_attributes[a]

RECURSIVE PassingElements(_, _, _)
PassingElements(elements, i, filters) ==
    IF i > Len(elements) THEN <<>>
    ELSE (IF PassesFilters(elements[i], filters) THEN <<elements[i]>> ELSE <<>>)
         \o PassingElements(elements, i + 1, filters)

C40_ExactlyThePassingElements ==
    (filter_call.pc = "returned" /\ WellFormedMsg(filter_call.msg))
        => /\ filter_call.result.ret = <<>>
                <=> PassingElements(filter_call.msg.elements, 1,
                                    filter_call.filters) = <<>>
           /\ filter_call.result.ret # <<>>
                => filter_call.result.ret[1] =
                      [filter_call.msg EXCEPT
                         !.elements = PassingElements(filter_call.msg.elements, 1,
                                                      filter_call.filters)]
           /\ filter_call.msg_after = filter_call.msg

\* an element without prb_id is kept under a prb_list
C40_KeptWithoutOwnProbeId ==
    /\ filter_call.pc = "returned"
    /\ filter_call.filters.prb_list # {}
    /\ filter_call.result.ret # <<>>
    /\ \E i \in 1..Len(filter_call.result.ret[1].elements) :
          "prb_id" \notin filter_call.result.ret[1].elements[i].keys

\* without a prb_list, and for messages whose complete elements all have a
\* prb_id, the statement holds
C40_ExactWhenProbeIdsPresent ==
    (\/ filter_call.filters.prb_list = {}
     \/ \A i \in 1..Len(filter_call.msg.elements) :
           WellFormedElement(filter_call.msg.elements[i])
              => "prb_id" \in filter_call.msg.elements[i].keys)
        => C40_ExactlyThePassingElements

\* the input is the same after the call
C40_InputNotModified ==
    filter_call.pc = "returned" => filter_call.msg_after = filter_call.msg

\* an attribute of int value meets the filter of its decimal string
C40_IntAttributeKept ==
    /\ filter_call.pc = "returned"
    /\ filter_call.filters.path_attributes = [a \in {"1"} |-> "1"]
    /\ filter_call.result.ret # <<>>
====
